---------------------------- MODULE Spec2Model ----------------------------
(***************************************************************************)
(* The code-execution sandbox of data_agency: run-directory allocation,    *)
(* used-variable selection, container invocation and run-directory         *)
(* retention (commands/analyze/sandbox/runner.py, prelude.py and           *)
(* analysis/sandbox/docker_runtime.py).                                    *)
(*                                                                         *)
(* Text (directory names, code) is a sequence of one-character strings, so *)
(* that prefix tests, slicing, formatting, parsing and lexicographic       *)
(* comparison are computed and not assumed.                                *)
(***************************************************************************)
EXTENDS Integers, Sequences, FiniteSets, TLC

VARIABLES
    fs,      \* the run root CONTAINER_IO_PATH: entry name -> entry
    clock,   \* what datetime.now() currently returns, in microseconds past Epoch0
    call,    \* per caller: the position and locals of its execute / prune call
    docker,  \* the container backend: daemon, control socket, local image
    req,     \* the code and variables the first caller passes to execute
    tmp_dockerfile,  \* the file ./tmp_dockerfile of the working directory
    wf       \* the AgentWorkflow: its position in run and its attributes

vars == <<fs, clock, call, docker, req, tmp_dockerfile, wf>>

-----------------------------------------------------------------------------
(* Bounds of the model *)

\* datetime.now() takes the values Epoch0 + 0 .. Epoch0 + MaxClock microseconds
MaxClock == 2

\* the retention limit execute passes to the prune pass; runner.py:98 passes 50,
\* the model scales it down so that the limit is exceeded within MaxClock runs
KeepRuns == 2

\* the limits a direct prune pass is called with are 0 .. MaxLimit
MaxLimit == 2

\* the code texts of SpecSelect have 1 .. MaxText characters
MaxText == 3

\* the lists and mappings of SpecMarshal have 0 .. MaxItems items
MaxItems == 2

-----------------------------------------------------------------------------
(* Characters and text *)

\* an optional value: None is the empty sequence, a present value x is <<x>>
None == <<>>
Some(x) == <<x>>
The(opt) == opt[1]

DigitChars == <<"0", "1", "2", "3", "4", "5", "6", "7", "8", "9">>

\* the characters of the model in code-point order (Python compares str by
\* code point): punctuation < digits < "_" < a-z < non-ASCII letters
Alphabet == <<" ", "#", "'", "(", ")", ".", "/">> \o DigitChars \o <<"_">> \o
            <<"a", "b", "c", "d", "e", "f", "g", "h", "i", "j", "k", "l", "m",
              "n", "o", "p", "q", "r", "s", "t", "u", "v", "w", "x", "y", "z">>
            \o <<"é">>

Ord(c) == CHOOSE i \in 1..Len(Alphabet) : Alphabet[i] = c

IsDigit(c) == \E i \in 1..10 : DigitChars[i] = c

DigitVal(c) == (CHOOSE i \in 1..10 : DigitChars[i] = c) - 1

AllDigits(s) == \A i \in 1..Len(s) : IsDigit(s[i])

\* int(s) of a digit string
RECURSIVE IntOf(_)
IntOf(s) == IF Len(s) = 0 THEN 0
            ELSE 10 * IntOf(SubSeq(s, 1, Len(s) - 1)) + DigitVal(s[Len(s)])

\* s < t for Python str
RECURSIVE StrLess(_, _)
StrLess(s, t) ==
    IF Len(t) = 0 THEN FALSE
    ELSE IF Len(s) = 0 THEN TRUE
    ELSE IF s[1] # t[1] THEN Ord(s[1]) < Ord(t[1])
    ELSE StrLess(Tail(s), Tail(t))

\* str.startswith
StartsWith(s, p) == Len(s) >= Len(p) /\ SubSeq(s, 1, Len(p)) = p

\* s[n:]
DropFirst(s, n) == SubSeq(s, n + 1, Len(s))

\* the n-digit zero-padded decimal of v, as strftime writes a field
RECURSIVE Pad(_, _)
Pad(v, n) == IF n = 0 THEN <<>>
             ELSE Pad(v \div 10, n - 1) \o <<DigitChars[(v % 10) + 1]>>

-----------------------------------------------------------------------------
(* Timestamps: strftime / strptime with the format "%Y%m%d_%H%M%S_%f" *)

\* the first instant datetime.now() returns in the model
Epoch0 == [Y |-> 2024, m |-> 1, d |-> 1, H |-> 0, M |-> 0, S |-> 0, f |-> 0]

\* datetime.now() when the clock stands at t microseconds (t < 10^6: no carry)
Now(t) == [Epoch0 EXCEPT !.f = t]

\* datetime.strftime("%Y%m%d_%H%M%S_%f"): every field zero-padded to its width
Strftime(ts) ==
    Pad(ts.Y, 4) \o Pad(ts.m, 2) \o Pad(ts.d, 2) \o <<"_">> \o
    Pad(ts.H, 2) \o Pad(ts.M, 2) \o Pad(ts.S, 2) \o <<"_">> \o Pad(ts.f, 6)

\* the outcomes of strptime: ValueError raised, or the datetime
ValueError == [raised |-> TRUE, ts |-> Epoch0]
Parsed(ts) == [raised |-> FALSE, ts |-> ts]

\* position of the first occurrence of c in s, 0 when there is none
IndexOf(s, c) ==
    IF \E i \in 1..Len(s) : s[i] = c
    THEN CHOOSE i \in 1..Len(s) : s[i] = c /\ \A j \in 1..(i - 1) : s[j] # c
    ELSE 0

InRange(c, lo, hi) == IsDigit(c) /\ DigitVal(c) >= lo /\ DigitVal(c) <= hi

\* the regular expressions _strptime builds for the directives, by length of
\* the matched text:  %m = 1[0-2]|0[1-9]|[1-9]
ReMonth(x) ==
    \/ Len(x) = 2 /\ x[1] = "1" /\ InRange(x[2], 0, 2)
    \/ Len(x) = 2 /\ x[1] = "0" /\ InRange(x[2], 1, 9)
    \/ Len(x) = 1 /\ InRange(x[1], 1, 9)

\* %d = 3[0-1]|[1-2]\d|0[1-9]|[1-9]
ReDay(x) ==
    \/ Len(x) = 2 /\ x[1] = "3" /\ InRange(x[2], 0, 1)
    \/ Len(x) = 2 /\ InRange(x[1], 1, 2) /\ IsDigit(x[2])
    \/ Len(x) = 2 /\ x[1] = "0" /\ InRange(x[2], 1, 9)
    \/ Len(x) = 1 /\ InRange(x[1], 1, 9)

\* %H = 2[0-3]|[0-1]\d|\d
ReHour(x) ==
    \/ Len(x) = 2 /\ x[1] = "2" /\ InRange(x[2], 0, 3)
    \/ Len(x) = 2 /\ InRange(x[1], 0, 1) /\ IsDigit(x[2])
    \/ Len(x) = 1 /\ IsDigit(x[1])

\* %M = [0-5]\d|\d
ReMinute(x) ==
    \/ Len(x) = 2 /\ InRange(x[1], 0, 5) /\ IsDigit(x[2])
    \/ Len(x) = 1 /\ IsDigit(x[1])

\* %S = 6[0-1]|[0-5]\d|\d
ReSecond(x) ==
    \/ Len(x) = 2 /\ x[1] = "6" /\ InRange(x[2], 0, 1)
    \/ Len(x) = 2 /\ InRange(x[1], 0, 5) /\ IsDigit(x[2])
    \/ Len(x) = 1 /\ IsDigit(x[1])

\* the field widths the regular expression tries, in the order its
\* alternatives are tried (two characters before one, leftmost field first)
Widths2 == <<<<2, 2>>, <<2, 1>>, <<1, 2>>, <<1, 1>>>>
Widths3 == << <<2, 2, 2>>, <<2, 2, 1>>, <<2, 1, 2>>, <<2, 1, 1>>,
              <<1, 2, 2>>, <<1, 2, 1>>, <<1, 1, 2>>, <<1, 1, 1>> >>

\* the index of the first width list the text x matches, 0 when none
FirstMatch(widths, ok(_)) ==
    IF \E i \in 1..Len(widths) : ok(widths[i])
    THEN CHOOSE i \in 1..Len(widths) :
            ok(widths[i]) /\ \A j \in 1..(i - 1) : ~ok(widths[j])
    ELSE 0

\* %m%d on the digits that follow the year
MonthDayOk(x, w) ==
    /\ w[1] + w[2] = Len(x)
    /\ ReMonth(SubSeq(x, 1, w[1]))
    /\ ReDay(SubSeq(x, w[1] + 1, Len(x)))

\* %H%M%S on the digits between the two underscores
HourMinSecOk(x, w) ==
    /\ w[1] + w[2] + w[3] = Len(x)
    /\ ReHour(SubSeq(x, 1, w[1]))
    /\ ReMinute(SubSeq(x, w[1] + 1, w[1] + w[2]))
    /\ ReSecond(SubSeq(x, w[1] + w[2] + 1, Len(x)))

IsLeap(y) == (y % 4 = 0 /\ y % 100 # 0) \/ y % 400 = 0

DaysIn(y, m) == IF m = 2 THEN (IF IsLeap(y) THEN 29 ELSE 28)
                ELSE IF m \in {4, 6, 9, 11} THEN 30 ELSE 31

\* %f: one to six digits, right-padded with zeros to microseconds
Fraction(x) == IntOf(x \o [i \in 1..(6 - Len(x)) |-> "0"])

\* datetime.strptime(s, "%Y%m%d_%H%M%S_%f"): the datetime, or ValueError when
\* the text does not match the expression, text remains after the match, or
\* the fields are no date (year 0, day beyond the month, second 60 or 61)
Strptime(s) ==
    LET p1   == IndexOf(s, "_")
        date == SubSeq(s, 1, p1 - 1)
        rest == DropFirst(s, p1)
        p2   == IndexOf(rest, "_")
        time == SubSeq(rest, 1, p2 - 1)
        frac == DropFirst(rest, p2)
    IN  IF p1 = 0 \/ p2 = 0 THEN ValueError
        ELSE IF ~(AllDigits(date) /\ Len(date) >= 6 /\ Len(date) <= 8)
        THEN ValueError
        ELSE IF ~(AllDigits(time) /\ Len(time) >= 3 /\ Len(time) <= 6)
        THEN ValueError
        ELSE IF ~(AllDigits(frac) /\ Len(frac) >= 1 /\ Len(frac) <= 6)
        THEN ValueError
        ELSE
        LET md  == DropFirst(date, 4)
            OkD(w) == MonthDayOk(md, w)
            OkT(w) == HourMinSecOk(time, w)
            i   == FirstMatch(Widths2, OkD)
            j   == FirstMatch(Widths3, OkT)
        IN  IF i = 0 \/ j = 0 THEN ValueError
            ELSE
            LET wd == Widths2[i]
                wt == Widths3[j]
                ts == [Y |-> IntOf(SubSeq(date, 1, 4)),
                       m |-> IntOf(SubSeq(md, 1, wd[1])),
                       d |-> IntOf(SubSeq(md, wd[1] + 1, Len(md))),
                       H |-> IntOf(SubSeq(time, 1, wt[1])),
                       M |-> IntOf(SubSeq(time, wt[1] + 1, wt[1] + wt[2])),
                       S |-> IntOf(SubSeq(time, wt[1] + wt[2] + 1, Len(time))),
                       f |-> Fraction(frac)]
            IN  IF ts.Y < 1 \/ ts.d > DaysIn(ts.Y, ts.m) \/ ts.S > 59
                THEN ValueError
                ELSE Parsed(ts)

-----------------------------------------------------------------------------
(* The run root and the prune pass (_cleanup_old_runs) *)

RunPrefix == <<"r", "u", "n", "_">>

\* f"run_{timestamp}" of execute
RunName(ts) == RunPrefix \o Strftime(ts)

\* a directory entry of the run root with its inputs/ and outputs/ files
\* (file name -> content), and a regular file
NoFiles == <<>>
DirEntry(ins, outs) == [kind |-> "dir", inputs |-> ins, outputs |-> outs]
FileEntry == [kind |-> "file", inputs |-> NoFiles, outputs |-> NoFiles]

\* the test of the listing loop: a directory, named run_..., whose name after
\* the prefix strptime accepts
IsRunDirPrefixOnly(root, n) ==
    /\ root[n].kind = "dir"
    /\ StartsWith(n, RunPrefix)

IsRunDir(root, n) ==
    /\ root[n].kind = "dir"
    /\ StartsWith(n, RunPrefix)
    /\ ~Strptime(DropFirst(n, 4)).raised

\* list.sort(key=name): ascending by name (names of one directory differ)
RECURSIVE SortNames(_)
SortNames(S) ==
    IF S = {} THEN <<>>
    ELSE LET least == CHOOSE x \in S : \A y \in S \ {x} : StrLess(x, y)
         IN  <<least>> \o SortNames(S \ {least})

\* run_dirs after the listing loop and the sort
RECURSIVE Reverse(_)
Reverse(q) == IF Len(q) = 0 THEN <<>> ELSE Reverse(Tail(q)) \o <<Head(q)>>

ListRunDirsNewestFirst(root) ==
    Reverse(SortNames({n \in DOMAIN root : IsRunDir(root, n)}))

ListRunDirs(root) == SortNames({n \in DOMAIN root : IsRunDir(root, n)})

\* a removal loop that runs until the list is empty
LoopConditionNonEmpty(run_dirs, max_runs) == Len(run_dirs) > 0

\* the condition of the removal loop
LoopCondition(run_dirs, max_runs) == Len(run_dirs) > max_runs

\* shutil.rmtree(path, ignore_errors=True): the entry is gone when the removal
\* works; when it fails (or the entry is already gone) nothing is raised and
\* the root is left as it is
Rmtree(root, n, works) ==
    IF n \in DOMAIN root /\ works
    THEN [x \in DOMAIN root \ {n} |-> root[x]]
    ELSE root

\* a removal that raises whenever it fails
RmtreeAlwaysRaises(ignore_errors, fails) == fails

\* whether shutil.rmtree raises the OSError of a removal that fails
RmtreeRaises(ignore_errors, fails) == fails /\ ~ignore_errors

-----------------------------------------------------------------------------
(* The sandboxed program: what the container does with a code text *)

\* A code text is modelled with what Python makes of it: whether it compiles,
\* and its statements in order:
\*   <<"print", x>>        writes x to stdout
\*   <<"use", name>>       reads the variable name (NameError when unbound) and
\*                         writes its value to stdout
\*   <<"eval", name>>      an expression statement that reads the variable name
\*                         (NameError when unbound)
\*   <<"raise", E>>        raises E, uncaught
\*   <<"exit", k>>         sys.exit(k)
\*   <<"write", m, file>>  creates or overwrites file under the mount m
\*   <<"delete", m, file>> removes file under the mount m
Program(text, compiles, body) ==
    [text |-> text, compiles |-> compiles, body |-> body]

\* the exit status a parent process sees after exit(k): the low 8 bits
ExitStatus(k) == k % 256

NoError == "none"

\* the file names of a run's inputs directory
CodeFile == <<"c", "o", "d", "e", ".", "p", "y">>
PreludeFile == <<"p", "r", "e", "l", "u", "d", "e", ".", "p", "y">>
PklSuffix == <<".", "p", "k", "l">>

\* f"{name}.pkl"
PklName(name) == name \o PklSuffix

EndsWith(s, x) == Len(s) >= Len(x) /\ SubSeq(s, Len(s) - Len(x) + 1, Len(s)) = x

\* os.path.splitext(os.path.basename(p))[0] of a *.pkl path
Stem(file) == SubSeq(file, 1, Len(file) - Len(PklSuffix))

\* f with file bound to content / with file removed
WithFile(f, file, content) ==
    [x \in DOMAIN f \cup {file} |-> IF x = file THEN content ELSE f[x]]
WithoutFile(f, file) == [x \in DOMAIN f \ {file} |-> f[x]]

\* the state of the process inside the container
ProcState(ins, outs) ==
    [stdout |-> <<>>, stderr |-> <<>>, rc |-> 0, inputs |-> ins, outputs |-> outs,
     error |-> NoError, exitArg |-> None, denied |-> {}, written |-> {},
     ns |-> <<>>, notLoaded |-> <<>>]

\* an uncaught exception: the traceback with the type name goes to stderr
\* and the interpreter ends with status 1
Uncaught(st, E) ==
    [st EXCEPT !.stderr = @ \o <<"Traceback", E>>, !.rc = 1, !.error = E]

\* a write or delete under a mount: refused by a read-only mount (OSError,
\* uncaught), applied to the host directory behind a read-write mount
FileOp(st, stmt, mounts) ==
    LET m == stmt[2]
        file == stmt[3]
        apply(f) == IF stmt[1] = "write" THEN WithFile(f, file, "written")
                    ELSE WithoutFile(f, file)
    IN  IF mounts[m] = "ro"
        THEN [Uncaught(st, "OSError") EXCEPT !.denied = @ \cup {<<m, file>>}]
        ELSE IF m = "inputs"
        THEN [st EXCEPT !.inputs = apply(@), !.written = @ \cup {<<m, file>>}]
        ELSE [st EXCEPT !.outputs = apply(@), !.written = @ \cup {<<m, file>>}]

\* exec of the compiled statements from statement i on, in the namespace ns
RECURSIVE ExecFrom(_, _, _, _, _)
ExecFrom(body, i, ns, mounts, st) ==
    IF i > Len(body) THEN st
    ELSE LET stmt == body[i]
         IN  CASE stmt[1] = "print" ->
                    ExecFrom(body, i + 1, ns, mounts,
                             [st EXCEPT !.stdout = Append(@, stmt[2])])
               [] stmt[1] = "use" ->
                    IF stmt[2] \in DOMAIN ns
                    THEN ExecFrom(body, i + 1, ns, mounts,
                                  [st EXCEPT !.stdout = Append(@, ns[stmt[2]].v)])
                    ELSE Uncaught(st, "NameError")
               [] stmt[1] = "eval" ->
                    IF stmt[2] \in DOMAIN ns
                    THEN ExecFrom(body, i + 1, ns, mounts, st)
                    ELSE Uncaught(st, "NameError")
               [] stmt[1] = "raise" -> Uncaught(st, stmt[2])
               [] stmt[1] = "exit" ->
                    [st EXCEPT !.rc = ExitStatus(stmt[2]), !.exitArg = Some(stmt[2])]
               [] OTHER ->
                    LET st2 == FileOp(st, stmt, mounts)
                    IN  IF st2.error # NoError THEN st2
                        ELSE ExecFrom(body, i + 1, ns, mounts, st2)

-----------------------------------------------------------------------------
(* Variable files: _save_var on the host, _load_var in the container *)

\* a host value: its kind, its text and its items, values themselves
\*   "int", "float", "str"  a number as its decimal text, a string; no items
\*   "list"    its items in order
\*   "dict"    its items in insertion order, each an "item" of a key and a value
\*   "table"   a pandas DataFrame: its columns in order, each a "column" with
\*             its name as text and, as items, its dtype and the list of its cells
\*   "module"  a value pickle refuses (a module, a lambda, an open file)
Value(kind, v) == [kind |-> kind, v |-> v, items |-> <<>>]

Container(kind, items) == [kind |-> kind, v |-> "", items |-> items]

Item(key, value) == Container("item", <<key, value>>)

Column(name, dtype, cells) ==
    [kind |-> "column", v |-> name,
     items |-> <<Value("dtype", dtype), Container("list", cells)>>]

AtomKinds == {"int", "float", "str"}

SaveError == "TypeError"

Op(name, arg) == <<name, arg>>

\* the items of a stack above position n
Above(stack, n) == SubSeq(stack, n + 1, Len(stack))

\* the opcodes that make the unpickler build value on its stack: an atom is
\* pushed, a container is a mark, its items and the opcode that collects what
\* is above the mark, a DataFrame its class and its columns collected by BUILD
RECURSIVE PickleOps(_)
RECURSIVE PickleAll(_)
RECURSIVE PickleItems(_)
RECURSIVE PickleColumns(_)
PickleOps(value) ==
    CASE value.kind \in AtomKinds -> <<Op(value.kind, value.v)>>
      [] value.kind = "list" ->
            <<Op("MARK", "")>> \o PickleAll(value.items) \o <<Op("LIST", "")>>
      [] value.kind = "dict" ->
            <<Op("MARK", "")>> \o PickleItems(value.items) \o <<Op("DICT", "")>>
      [] value.kind = "table" ->
            <<Op("GLOBAL", "DataFrame"), Op("MARK", "")>> \o PickleColumns(value.items)
            \o <<Op("BUILD", "")>>

PickleAll(values) ==
    IF Len(values) = 0 THEN <<>>
    ELSE PickleOps(Head(values)) \o PickleAll(Tail(values))

PickleItems(items) ==
    IF Len(items) = 0 THEN <<>>
    ELSE PickleOps(Head(items).items[1]) \o PickleOps(Head(items).items[2])
         \o PickleItems(Tail(items))

PickleColumns(columns) ==
    IF Len(columns) = 0 THEN <<>>
    ELSE <<Op("str", Head(columns).v), Op("str", Head(columns).items[1].v)>>
         \o PickleOps(Head(columns).items[2])
         \o PickleColumns(Tail(columns))

\* pickle.dump(value, f) and DataFrame.to_pickle(path): the stream of value
PickleDump(value) == PickleOps(value) \o <<Op("STOP", "")>>

\* a DataFrame written as the list of its column names
SaveVarAsItems(value) ==
    IF value.kind = "table"
    THEN [fmt |-> "pickle",
          bytes |-> PickleDump(Container("list", [i \in 1..Len(value.items) |->
                                                    Value("str", value.items[i].v)]))]
    ELSE IF value.kind = "module" THEN [fmt |-> "empty", bytes |-> <<>>]
    ELSE [fmt |-> "pickle", bytes |-> PickleDump(value)]

\* _save_var: a DataFrame goes through to_pickle, anything else through
\* pickle.dump into the file opened for writing; when pickle refuses the value
\* the file is left created and empty and the error is raised
SaveVar(value) ==
    IF value.kind = "table" THEN [fmt |-> "pandas", bytes |-> PickleDump(value)]
    ELSE IF value.kind = "module" THEN [fmt |-> "empty", bytes |-> <<>>]
    ELSE [fmt |-> "pickle", bytes |-> PickleDump(value)]

SaveRaises(value) == value.kind = "module"

LoadFailed == Value("LoadFailed", "")

Mark == Value("mark", "")

\* the position of the topmost mark of a stack, 0 when it has none
TopMark(stack) ==
    LET marks == {i \in 1..Len(stack) : stack[i].kind = "mark"}
    IN  IF marks = {} THEN 0 ELSE CHOOSE i \in marks : \A j \in marks : j <= i

\* the items of a dict and the columns of a DataFrame from the values above
\* a mark
PairsOf(vals) == [i \in 1..(Len(vals) \div 2) |-> Item(vals[2 * i - 1], vals[2 * i])]
ColumnsOf(vals) ==
    [i \in 1..(Len(vals) \div 3) |->
        Column(vals[3 * i - 2].v, vals[3 * i - 1].v, vals[3 * i].items)]

\* the unpickler: the opcodes from position i on applied to the stack; the
\* value on top at STOP, LoadFailed when the stream ends before STOP or an
\* opcode does not find what it needs
RECURSIVE Unpickle(_, _, _)
Unpickle(bytes, i, stack) ==
    IF i > Len(bytes) THEN LoadFailed
    ELSE LET op   == bytes[i][1]
             arg  == bytes[i][2]
             m    == TopMark(stack)
             vals == Above(stack, m)
             base == SubSeq(stack, 1, m - 1)
         IN  CASE op = "STOP" ->
                    IF Len(stack) = 1 /\ m = 0 THEN stack[1] ELSE LoadFailed
               [] op \in AtomKinds ->
                    Unpickle(bytes, i + 1, Append(stack, Value(op, arg)))
               [] op = "MARK" -> Unpickle(bytes, i + 1, Append(stack, Mark))
               [] op = "GLOBAL" ->
                    Unpickle(bytes, i + 1, Append(stack, Value("class", arg)))
               [] op = "LIST" ->
                    IF m = 0 THEN LoadFailed
                    ELSE Unpickle(bytes, i + 1, Append(base, Container("list", vals)))
               [] op = "DICT" ->
                    IF m = 0 \/ Len(vals) % 2 # 0 THEN LoadFailed
                    ELSE Unpickle(bytes, i + 1,
                                  Append(base, Container("dict", PairsOf(vals))))
               [] op = "BUILD" ->
                    IF m < 2 \/ Len(vals) % 3 # 0 \/ stack[m - 1].kind # "class"
                    THEN LoadFailed
                    ELSE Unpickle(bytes, i + 1,
                                  Append(SubSeq(stack, 1, m - 2),
                                         Container("table", ColumnsOf(vals))))
               [] OTHER -> LoadFailed

\* pd.read_pickle(path) and pickle.load(f): both run the unpickler over the
\* file (pandas is importable in the container)
ReadPickle(content) == Unpickle(content.bytes, 1, <<>>)
PickleLoad(content) == Unpickle(content.bytes, 1, <<>>)

\* _load_var: pd.read_pickle first, pickle.load when that raises; an empty
\* file makes both raise
LoadVar(content) ==
    LET first == ReadPickle(content)
    IN  IF first.kind # "LoadFailed" THEN first ELSE PickleLoad(content)

-----------------------------------------------------------------------------
(* The bootstrap script (prelude.run) inside the container *)

PklFiles(ins) == {f \in DOMAIN ins : EndsWith(f, PklSuffix)}

\* a loading loop that the first failing file ends
RECURSIVE LoadAllStopAtFirst(_, _, _)
LoadAllStopAtFirst(files, ins, acc) ==
    IF Len(files) = 0 THEN acc
    ELSE LET file == Head(files)
             got  == LoadVar(ins[file])
         IN  IF got.kind = "LoadFailed"
             THEN [acc EXCEPT !.stderr = Append(@, "[prelude] Failed to load"),
                              !.notLoaded = Append(@, Stem(file))]
             ELSE LoadAllStopAtFirst(Tail(files), ins,
                                     [acc EXCEPT !.ns = WithFile(@, Stem(file), got)])

\* step 1 of run: the namespace loaded from the *.pkl files in sorted order;
\* a file that fails to load is reported on stderr, with its name, and skipped
\* (notLoaded: the names of the reports in their order)
RECURSIVE LoadAll(_, _, _)
LoadAll(files, ins, acc) ==
    IF Len(files) = 0 THEN acc
    ELSE LET file == Head(files)
             got  == LoadVar(ins[file])
         IN  IF got.kind = "LoadFailed"
             THEN LoadAll(Tail(files), ins,
                          [acc EXCEPT !.stderr = Append(@, "[prelude] Failed to load"),
                                      !.notLoaded = Append(@, Stem(file))])
             ELSE LoadAll(Tail(files), ins,
                          [acc EXCEPT !.ns = WithFile(@, Stem(file), got)])

\* what the except SystemExit clause of run does with the exit the code asked
\* for: re-raise it, so the interpreter ends with the code's status
OnSystemExitSwallow(st) == [st EXCEPT !.rc = 0]

OnSystemExit(st) == st

\* run(): load the variables, read the code, compile and exec it
PreludeRun(ins, outs, mounts) ==
    LET base   == [ns |-> <<>>, stderr |-> <<>>, notLoaded |-> <<>>]
        loaded == LoadAll(SortNames(PklFiles(ins)), ins, base)
        st0    == [ProcState(ins, outs) EXCEPT !.stderr = loaded.stderr,
                                               !.ns = loaded.ns,
                                               !.notLoaded = loaded.notLoaded]
    IN  IF CodeFile \notin DOMAIN ins
        THEN [st0 EXCEPT !.stderr = Append(@, "[prelude] Failed to read code"),
                         !.rc = 1] @@ [origin |-> "bootstrap"]
        ELSE LET code == ins[CodeFile]
                 st1  == IF ~code.compiles THEN Uncaught(st0, "SyntaxError")
                         ELSE ExecFrom(code.body, 1, loaded.ns, mounts, st0)
                 st2  == IF st1.exitArg # None THEN OnSystemExit(st1) ELSE st1
             IN  st2 @@ [origin |-> "code"]

\* python -u /inputs/prelude.py in the container: without the script the
\* interpreter ends with status 2 before any code runs
ContainerProcess(ins, outs, mounts) ==
    IF PreludeFile \notin DOMAIN ins
    THEN [ProcState(ins, outs) EXCEPT !.stderr = <<"can't open file">>, !.rc = 2]
         @@ [origin |-> "bootstrap"]
    ELSE PreludeRun(ins, outs, mounts)

-----------------------------------------------------------------------------
(* Used-variable selection (_find_used_variables) *)

AsciiLetters == {"a", "b", "c", "d", "e", "f", "g", "h", "i", "j", "k", "l", "m",
                 "n", "o", "p", "q", "r", "s", "t", "u", "v", "w", "x", "y", "z"}

\* [a-zA-Z_] and [a-zA-Z0-9_] of the pattern
IsNameStart(c) == c \in AsciiLetters \/ c = "_"
IsNameChar(c) == IsNameStart(c) \/ IsDigit(c)

\* \w of a str pattern: Unicode letters and digits and the underscore
IsWordChar(c) == IsNameChar(c) \/ c = "é"

\* \b at the gap before position i (1 .. Len + 1) of text
IsBoundary(text, i) ==
    LET before == i > 1 /\ IsWordChar(text[i - 1])
        after  == i <= Len(text) /\ IsWordChar(text[i])
    IN  before # after

\* re.findall(r"\b([a-zA-Z_][a-zA-Z0-9_]*)\b", text) as a set: a match starts
\* at a boundary with a name-start character, takes the longest run of name
\* characters, and needs a boundary right after it (no shorter run ends at one)
FindAll(text) ==
    {SubSeq(text, i, j) : <<i, j>> \in
        {ij \in (1..Len(text)) \X (1..Len(text)) :
            /\ ij[1] <= ij[2]
            /\ IsBoundary(text, ij[1])
            /\ IsNameStart(text[ij[1]])
            /\ \A k \in ij[1]..ij[2] : IsNameChar(text[k])
            /\ (ij[2] = Len(text) \/ ~IsNameChar(text[ij[2] + 1]))
            /\ IsBoundary(text, ij[2] + 1)}}

\* pairs <<key, value>> of the namespace, in the order of the dict
Keys(namespace) == {namespace[i][1] : i \in 1..Len(namespace)}

\* {k: v for k, v in namespace.items() if k in used}
FindUsedVariablesAll(text, namespace) == namespace

FindUsedVariables(text, namespace) ==
    LET used == FindAll(text)
        Used(pair) == pair[1] \in used
    IN  SelectSeq(namespace, Used)

-----------------------------------------------------------------------------
(* What compile() and exec() of prelude.run make of a code text: the tokens
   of Python's lexer and the statements of a text of simple statements
   separated by semicolons, each a name, a number or a string literal *)

\* the start and the continuation of a Python identifier: letters of any
\* script and the underscore, then also digits
IsIdStart(c) == IsNameStart(c) \/ c = "é"
IsIdChar(c) == IsIdStart(c) \/ IsDigit(c)

Tok(kind, val) == [kind |-> kind, val |-> val]

\* the last position of the longest run of characters with In from i on
RunEnd(text, i, In(_)) ==
    CHOOSE j \in i..Len(text) :
        /\ \A k \in i..j : In(text[k])
        /\ j = Len(text) \/ ~In(text[j + 1])

\* n quote characters from position i on
IsQuotes(text, i, n) ==
    i + n - 1 <= Len(text) /\ \A k \in i..(i + n - 1) : text[k] = "'"

First(S) == CHOOSE j \in S : \A k \in S : j <= k

\* the tokens from position i on, of a one-line text without blanks: a comment
\* runs to the end of the text, a string literal from its quote or its three
\* quotes to the next such, a name and a number (a run of digits) as far as
\* they go; an unclosed literal and a number run into a name are errors
RECURSIVE Lex(_, _)
Lex(text, i) ==
    IF i > Len(text) THEN <<>>
    ELSE LET c == text[i]
         IN  CASE c = "#" -> <<>>
               [] c = ";" -> <<Tok("sep", <<>>)>> \o Lex(text, i + 1)
               [] IsQuotes(text, i, 3) ->
                    LET close == {j \in (i + 3)..Len(text) : IsQuotes(text, j, 3)}
                    IN  IF close = {} THEN <<Tok("error", <<>>)>>
                        ELSE LET j == First(close)
                             IN  <<Tok("string", SubSeq(text, i + 3, j - 1))>>
                                 \o Lex(text, j + 3)
               [] c = "'" ->
                    LET close == {j \in (i + 1)..Len(text) : text[j] = "'"}
                    IN  IF close = {} THEN <<Tok("error", <<>>)>>
                        ELSE LET j == First(close)
                             IN  <<Tok("string", SubSeq(text, i + 1, j - 1))>>
                                 \o Lex(text, j + 1)
               [] IsIdStart(c) ->
                    LET j == RunEnd(text, i, IsIdChar)
                    IN  <<Tok("name", SubSeq(text, i, j))>> \o Lex(text, j + 1)
               [] IsDigit(c) ->
                    LET j == RunEnd(text, i, IsDigit)
                    IN  IF j < Len(text) /\ IsIdStart(text[j + 1])
                        THEN <<Tok("error", <<>>)>>
                        ELSE <<Tok("number", SubSeq(text, i, j))>> \o Lex(text, j + 1)
               [] OTHER -> <<Tok("error", <<>>)>>

\* whether the tokens are statements separated by semicolons; last is what
\* came before: "start", "sep", "atom" (a name or a number) or "string"
\* (adjacent string literals are one expression)
RECURSIVE Parses(_, _)
Parses(toks, last) ==
    IF Len(toks) = 0 THEN TRUE
    ELSE LET kind == Head(toks).kind
         IN  CASE kind = "error" -> FALSE
               [] kind = "sep" ->
                    last \in {"atom", "string"} /\ Parses(Tail(toks), "sep")
               [] kind = "string" ->
                    last \in {"start", "sep", "string"} /\ Parses(Tail(toks), "string")
               [] OTHER ->
                    last \in {"start", "sep"} /\ Parses(Tail(toks), "atom")

\* compile(code, "/inputs/code.py", "exec") does not raise SyntaxError
Compiles(text) == Parses(Lex(text, 1), "start")

IsName(tok) == tok.kind = "name"

\* the statements exec runs: each name is looked up, in the order of the text
BodyOf(text) ==
    LET names == SelectSeq(Lex(text, 1), IsName)
    IN  IF Compiles(text) THEN [i \in 1..Len(names) |-> <<"eval", names[i].val>>]
        ELSE <<>>

\* the code object of a text
Compile(text) == Program(text, Compiles(text), BodyOf(text))

\* the names the code reads as variables
References(text) == {BodyOf(text)[i][2] : i \in 1..Len(BodyOf(text))}

-----------------------------------------------------------------------------
(* The container runtime (DockerRuntime) *)

NoExc == "none"

\* ensure_docker: nothing to do when docker ps works; otherwise dockerd is
\* started and the control socket is polled.  The outcomes: the start of the
\* process fails (OSError); the socket is there, left over or just created,
\* with the daemon accepting commands or not; the socket never appears
\* (RuntimeError after the timeout)
EnsureDocker(d) ==
    IF d.daemon = "up" THEN {[exc |-> NoExc, docker |-> d]}
    ELSE {[exc |-> "OSError", docker |-> d]}
         \cup {[exc |-> NoExc, docker |-> [d EXCEPT !.daemon = x, !.socket = TRUE]] :
                  x \in {"up", "down"}}
         \cup (IF d.socket THEN {} ELSE {[exc |-> "RuntimeError", docker |-> d]})

\* whether ensure_image raises on the exit status of docker build
BuildNeverRaises(rc) == FALSE

BuildRaises(rc) == rc # 0

\* the exit statuses docker build can end with: never 0 without the daemon
BuildStatuses(d) == IF d.daemon = "up" THEN {0, 1} ELSE {1}

\* cmd of ensure_image, joined with blanks
BuildCommand(name) ==
    <<"docker", "build", "-t", name, "-f", "./tmp_dockerfile", ".">>

\* the completed process of docker build that ended with status rc
BuildProc(d, rc) ==
    [rc |-> rc,
     stdout |-> IF d.daemon = "up" THEN "Step 1/5" ELSE "",
     stderr |-> IF rc = 0 THEN ""
                ELSE IF d.daemon = "up" THEN "ERROR: failed to solve"
                ELSE "Cannot connect to the Docker daemon"]

BuildErrorBare(cmd, proc) ==
    [text |-> "Failed to build sandbox image.", command |-> <<>>, rc |-> 0,
     stdout |-> "", stderr |-> ""]

\* the message of the RuntimeError of a failed build: the command, the return
\* code and the two captured streams
BuildError(cmd, proc) ==
    [text |-> "Failed to build sandbox image.", command |-> cmd,
     rc |-> proc.rc, stdout |-> proc.stdout, stderr |-> proc.stderr]

\* the default of the image argument of execute and of DockerRuntime, and an
\* image name the environment can give
DefaultImage == "codegen-agent-runner:py313"
OtherImage == "prebuilt:latest"

\* self.image = image or os.environ.get("CODEGEN_AGENT_RUNNER_IMAGE", default):
\* the argument when it is given and not empty, else the variable when it is
\* set, else the default
RuntimeImage(image, env) ==
    IF image # None /\ The(image) # "" THEN The(image)
    ELSE IF env # None THEN The(env)
    ELSE DefaultImage

\* the image argument execute passes to DockerRuntime: its own keyword
\* argument, which workflow.py leaves at its default
ExecuteImage == Some(DefaultImage)

\* the backend with the default image built: the daemon up, its socket there,
\* no other image, CODEGEN_AGENT_RUNNER_IMAGE unset.  Below the line: what has
\* happened so far, kept for the properties and read by no action: the builds
\* that ended with status 0, and the calls of ensure_image that went past the
\* probe after such a build
DockerUp ==
    [daemon |-> "up", socket |-> TRUE, image |-> TRUE, other |-> FALSE,
     override |-> None,
     \* ------------------------------------------------------------------
     okBuilds |-> 0, rebuilds |-> 0]

\* whether the image of that name is in the local store
Present(d, name) == IF name = DefaultImage THEN d.image ELSE d.other

\* whether docker image inspect of the image ends with status 0
ProbeNeverFinds(d, name) == FALSE

ProbeFinds(d, name) == d.daemon = "up" /\ Present(d, name)

\* the backend after docker build -t name ended with status rc
AfterBuild(d, rc, name) ==
    [d EXCEPT !.image = IF rc = 0 /\ name = DefaultImage THEN TRUE ELSE @,
              !.other = IF rc = 0 /\ name # DefaultImage THEN TRUE ELSE @,
              !.okBuilds = IF rc = 0 THEN @ + 1 ELSE @]

\* ensure_image after a daemon check that did not raise: the fast path when
\* docker image inspect finds the image; otherwise the packaged definition is
\* read (which can fail), written to the temporary file (which can fail, the
\* file opened and nothing in it), and docker build is run
EnsureImageWith(d, name) ==
    IF ProbeFinds(d, name)
    THEN {[exc |-> NoExc, docker |-> d, infra |-> "none", builds |-> 0,
           build |-> None, msg |-> None]}
    ELSE LET slow == [d EXCEPT !.rebuilds = IF d.okBuilds > 0 THEN @ + 1 ELSE @]
         IN  {[exc |-> e, docker |-> slow, infra |-> "definition",
               builds |-> 0, build |-> None, msg |-> None] :
                e \in {"ModuleNotFoundError", "OSError"}}
             \cup {IF BuildRaises(rc)
                   THEN [exc |-> "RuntimeError", docker |-> AfterBuild(slow, rc, name),
                         infra |-> "build", builds |-> 1,
                         build |-> Some(BuildProc(d, rc)),
                         msg |-> Some(BuildError(BuildCommand(name), BuildProc(d, rc)))]
                   ELSE [exc |-> NoExc, docker |-> AfterBuild(slow, rc, name),
                         infra |-> IF rc = 0 THEN "none" ELSE "build", builds |-> 1,
                         build |-> Some(BuildProc(d, rc)), msg |-> None] :
                   rc \in BuildStatuses(d)}

\* ./tmp_dockerfile after the call of ensure_image that ended as o: unlinked
\* by the finally clause around the build; left as open(..., "w") made it when
\* the write raised, which is before the try; else as it was
TmpAfter(o, file) ==
    IF o.builds > 0 THEN None
    ELSE IF o.infra = "definition" /\ o.exc = "OSError" THEN Some("")
    ELSE file

EnsureImage(d, name) ==
    UNION {IF o.exc # NoExc
           THEN {[exc |-> o.exc, docker |-> o.docker, infra |-> "daemon", builds |-> 0,
                  build |-> None, msg |-> None]}
           ELSE EnsureImageWith(o.docker, name) : o \in EnsureDocker(d)}

\* the -v arguments of docker run: container mount -> access mode
MountsAllRw == [inputs |-> "rw", outputs |-> "rw"]

Mounts == [inputs |-> "ro", outputs |-> "rw"]

\* docker run failing before the container starts (daemon not reachable,
\* mount or image error): status 125 and a message, no code is run
BackendFailure(ins, outs) ==
    [ProcState(ins, outs) EXCEPT !.stderr = <<"docker: Error">>, !.rc = 125]
    @@ [origin |-> "backend"]

\* the processes docker run can end as
DockerRun(d, name, ins, outs) ==
    IF ProbeFinds(d, name)
    THEN {BackendFailure(ins, outs), ContainerProcess(ins, outs, Mounts)}
    ELSE {BackendFailure(ins, outs)}

\* the end of DockerRuntime.run: stdout stands in for an empty stderr when the
\* status is not 0
StderrAlwaysStdout(proc) ==
    IF proc.rc # 0 THEN proc.stdout ELSE proc.stderr

StderrNeverStdout(proc) == proc.stderr

StderrOf(proc) ==
    IF proc.rc # 0 /\ proc.stderr = <<>> THEN proc.stdout ELSE proc.stderr

\* ExecutionResult(stdout=proc.stdout, stderr=proc.stderr, returncode=proc.returncode)
ExecutionResult(proc) ==
    [stdout |-> proc.stdout, stderr |-> StderrOf(proc), returncode |-> proc.rc]

\* ExecutionResult.success
Success(result) == result.returncode = 0

-----------------------------------------------------------------------------
(* Callers, requests and the state of a call *)

Callers == {"a", "b"}

u == <<"u">>
v == <<"v">>

\* the exit codes the sample programs pass to sys.exit
ExitCodes == {0, 42, 256}

\* p('h')
Hello == Program(<<"p", "(", "'", "h", "'", ")">>, TRUE, <<<<"print", "hi">>>>)

\* p(u) and a file written under /outputs
UseU == Program(<<"p", "(", "u", ")">>, TRUE,
                <<<<"use", u>>, <<"write", "outputs", <<"o">>>>>>)

\* p('s') 1/0 p('n')
DivZero == Program(<<"1", "/", "0">>, TRUE,
                   <<<<"print", "start">>, <<"raise", "ZeroDivisionError">>,
                     <<"print", "never">>>>)

\* p('b') exit(k) p('a')
ExitWith(k) == Program(<<"e", "x", "i", "t", "(", ")">>, TRUE,
                       <<<<"print", "before">>, <<"exit", k>>,
                         <<"print", "after">>>>)

\* a file created under /inputs, the code file removed from /inputs
WriteIn == Program(<<"w">>, TRUE, <<<<"write", "inputs", <<"x">>>>>>)
DeleteIn == Program(<<"d">>, TRUE, <<<<"delete", "inputs", CodeFile>>>>)

\* text that does not compile
Broken == Program(<<"p", "(">>, FALSE, <<>>)

NsEmpty == <<>>
NsUsedUnused == <<<<u, Value("str", "A")>>, <<v, Value("str", "B")>>>>
NsTable ==
    <<<<u, Container("table", <<Column("a", "int64", <<Value("int", "1")>>)>>)>>>>
NsModule == <<<<v, Value("str", "B")>>, <<u, Value("module", "M")>>>>

Request(code, variables) == [code |-> code, variables |-> variables]

Requests ==
    {Request(Hello, NsEmpty), Request(UseU, NsUsedUnused), Request(UseU, NsEmpty),
     Request(UseU, NsTable), Request(UseU, NsModule), Request(DivZero, NsEmpty),
     Request(WriteIn, NsEmpty), Request(DeleteIn, NsEmpty),
     Request(Broken, NsEmpty)}
    \cup {Request(ExitWith(k), NsEmpty) : k \in ExitCodes}

\* what each caller passes to execute: the first caller one request of
\* Requests, the same in all its calls of one behaviour; the other caller the
\* plain request (a call interferes with another through the run root and the
\* backend, not through its code)
RequestOf(c) == IF c = "a" THEN req ELSE Request(Hello, NsEmpty)

\* the empty code text: generated code and the code of an assessment default
\* to ""
EmptyCode == Program(<<>>, TRUE, <<>>)

\* CodeAssessmentResult, and CodeAssessmentResult.empty_assessment()
Assessment(success, should_retry, code) ==
    [success |-> success, should_retry |-> should_retry, code |-> code]

EmptyAssessment == Assessment(FALSE, FALSE, EmptyCode)

\* AgentWorkflow(..., max_code_generation=n) before run.  Below the line: the
\* code texts passed to the sandbox and the run directories of the calls that
\* returned, kept for the properties and read by no action
NewWorkflow(n) ==
    [pc |-> "new", max_code_generation |-> n, code_generation_count |-> 0,
     current_code |-> EmptyCode, execution_result |-> None,
     assessment |-> EmptyAssessment, history |-> <<>>,
     \* ------------------------------------------------------------------
     executions |-> <<>>, sessions |-> <<>>]

\* a caller outside any call.  Below the line: what the call has done so far,
\* kept for the properties and read by no action
IdleCall ==
    [pc |-> "idle", code |-> Hello, variables |-> NsEmpty, timestamp |-> Epoch0,
     run_root |-> <<>>, image |-> DefaultImage, exc |-> NoExc, result |-> None,
     max_runs |-> 0, run_dirs |-> <<>>, is_windows |-> FALSE, timeout |-> 0,
     \* ------------------------------------------------------------------
     launched |-> <<>>, started |-> 0, slept |-> 0, checked |-> "none",
     direct |-> FALSE, failedAt |-> "none", infra |-> "none", prunes |-> 0,
     mkdirs |-> 0, existing |-> None, wrote |-> {}, builds |-> 0, build |-> None,
     msg |-> None, proc |-> None,
     inputsBefore |-> None, before |-> None,
     removed |-> {}, failed |-> {}, redundant |-> {}, stages |-> <<>>]

\* where control goes when the try block of execute is left, by return or by
\* exception: the finally clause
AfterTrySuccessOnly(exc) == IF exc = NoExc THEN "cleanup" ELSE "done"

AfterTry(exc) == "cleanup"

\* leaving the try block with the exception exc raised at the given stage
Raise(cl, exc, stage) ==
    [cl EXCEPT !.exc = exc, !.failedAt = stage, !.pc = AfterTry(exc)]

-----------------------------------------------------------------------------
(* execute, step by step *)

\* an execute that goes from the populated inputs straight to the container
StageAfterSkipsImage(pc) == IF pc = "idle" THEN "populate" ELSE "run"

\* the statements of the try block in their order: where control is after the
\* part at pc went through without an exception
StageAfter(pc) ==
    CASE pc = "idle" -> "populate"
      [] pc = "populate" -> "ensure_image"
      [] pc = "ensure_image" -> "run"

\* the part of execute named stage went through
Passed(cl, stage) == [cl EXCEPT !.stages = Append(@, stage)]

\* Path.mkdir() of the run root and of its inputs and outputs: FileExistsError
\* when the name is taken
MkdirExistOk(root, n) ==
    [raises |-> FALSE,
     root |-> IF n \in DOMAIN root THEN root
              ELSE WithFile(root, n, DirEntry(NoFiles, NoFiles))]

Mkdir(root, n) ==
    IF n \in DOMAIN root THEN [raises |-> TRUE, root |-> root]
    ELSE [raises |-> FALSE, root |-> WithFile(root, n, DirEntry(NoFiles, NoFiles))]

\* the loop over filtered.items(): each value saved as <name>.pkl until one
\* raises
RECURSIVE SaveAll(_, _)
SaveAll(pairs, acc) ==
    IF Len(pairs) = 0 THEN acc
    ELSE LET name  == Head(pairs)[1]
             value == Head(pairs)[2]
             next  == [acc EXCEPT !.ins = WithFile(@, PklName(name), SaveVar(value)),
                                  !.wrote = @ \cup {PklName(name)}]
         IN  IF SaveRaises(value) THEN [next EXCEPT !.exc = SaveError]
             ELSE SaveAll(Tail(pairs), next)

\* lines 70-78: the run identifier from the clock, and the three directories.
\* disk is whether the file system lets a new directory be made.
Create(c, disk) ==
    /\ call[c].pc = "idle"
    /\ LET ts   == Now(clock)
           name == RunName(ts)
           made == Mkdir(fs, name)
           cl   == [IdleCall EXCEPT !.code = RequestOf(c).code,
                                    !.variables = RequestOf(c).variables,
                                    !.timestamp = ts, !.run_root = name,
                                    !.max_runs = KeepRuns, !.mkdirs = 1,
                                    !.existing = IF name \in DOMAIN fs
                                                 THEN Some(fs[name]) ELSE None]
       IN  IF made.raises
           THEN /\ call' = [call EXCEPT ![c] =
                              [Raise(cl, "FileExistsError", "create")
                                  EXCEPT !.infra = "mkdir"]]
                /\ fs' = fs
           ELSE IF ~disk
           THEN /\ call' = [call EXCEPT ![c] =
                              [Raise(cl, "OSError", "create") EXCEPT !.infra = "mkdir"]]
                /\ fs' = fs
           ELSE /\ call' = [call EXCEPT ![c] =
                              [Passed(cl, "created") EXCEPT !.pc = StageAfter("idle")]]
                /\ fs' = made.root
    /\ UNCHANGED <<wf, clock, docker, req, tmp_dockerfile>>

\* lines 80-88: code.py, prelude.py and the selected variables written under
\* inputs; FileNotFoundError when the run directory is gone
Populate(c) ==
    /\ call[c].pc = "populate"
    /\ LET cl   == call[c]
           name == cl.run_root
       IN  IF name \notin DOMAIN fs
           THEN /\ call' = [call EXCEPT ![c] = Raise(cl, "FileNotFoundError", "write")]
                /\ fs' = fs
           ELSE LET ins0  == WithFile(WithFile(fs[name].inputs, CodeFile, cl.code),
                                      PreludeFile, "prelude")
                    saved == SaveAll(FindUsedVariables(cl.code.text, cl.variables),
                                     [ins |-> ins0, wrote |-> {CodeFile, PreludeFile},
                                      exc |-> NoExc])
                    cl2   == [cl EXCEPT !.wrote = saved.wrote]
                IN  /\ fs' = [fs EXCEPT ![name].inputs = saved.ins]
                    /\ call' = [call EXCEPT ![c] =
                                  IF saved.exc # NoExc
                                  THEN Raise(cl2, saved.exc, "serialize")
                                  ELSE [Passed(cl2, "populated")
                                          EXCEPT !.pc = StageAfter(cl.pc)]]
    /\ UNCHANGED <<wf, clock, docker, req, tmp_dockerfile>>

\* lines 91-92: rt.ensure_image(); a call that reaches the build has written
\* ./tmp_dockerfile before it and unlinked it after it
EnsureImageStep(c) ==
    /\ call[c].pc = "ensure_image"
    /\ \E o \in EnsureImage(docker, RuntimeImage(ExecuteImage, docker.override)) :
          /\ docker' = o.docker
          /\ tmp_dockerfile' = TmpAfter(o, tmp_dockerfile)
          /\ LET cl == [call[c] EXCEPT !.image = RuntimeImage(ExecuteImage,
                                                              docker.override),
                                       !.builds = o.builds, !.infra = o.infra,
                                       !.build = o.build, !.msg = o.msg]
             IN  call' = [call EXCEPT ![c] =
                            IF o.exc # NoExc THEN Raise(cl, o.exc, o.infra)
                            ELSE [Passed(cl, "ensured")
                                    EXCEPT !.pc = StageAfter(cl.pc)]]
    /\ UNCHANGED <<wf, fs, clock, req>>

\* lines 93-95: rt.run(inputs, outputs) and the result.  docker run -v makes
\* a host directory that is missing, so a run directory removed meanwhile is
\* back, empty, when the container starts
RunStep(c) ==
    /\ call[c].pc = "run"
    /\ \E o \in EnsureDocker(docker) :
          /\ docker' = o.docker
          /\ IF o.exc # NoExc
             THEN /\ call' = [call EXCEPT ![c] =
                                [Raise(call[c], o.exc, "daemon") EXCEPT !.infra = "daemon"]]
                  /\ fs' = fs
             ELSE LET cl    == call[c]
                      name  == cl.run_root
                      entry == IF name \in DOMAIN fs THEN fs[name]
                               ELSE DirEntry(NoFiles, NoFiles)
                  IN  \E proc \in DockerRun(o.docker, cl.image, entry.inputs, entry.outputs) :
                         /\ fs' = IF proc.origin = "backend" /\ o.docker.daemon = "down"
                                  THEN fs
                                  ELSE WithFile(fs, name,
                                                DirEntry(proc.inputs, proc.outputs))
                         /\ call' = [call EXCEPT ![c] =
                               [Passed(Passed(cl, "run"), "returned")
                                   EXCEPT !.proc = Some(proc),
                                   !.inputsBefore = Some(entry.inputs),
                                   !.infra = IF proc.origin = "backend"
                                             THEN "backend_run" ELSE "none",
                                   !.result = Some(ExecutionResult(proc)),
                                   !.pc = AfterTry(NoExc)]]
    /\ UNCHANGED <<wf, clock, req, tmp_dockerfile>>

-----------------------------------------------------------------------------
(* The prune pass, step by step: the listing with its sort, one removal per
   step, the return *)

\* lines 43-56: run_dirs listed, filtered and sorted
PruneList(c) ==
    /\ call[c].pc = "cleanup"
    /\ call' = [call EXCEPT ![c] =
                  [@ EXCEPT !.run_dirs = ListRunDirs(fs), !.pc = "prune_loop",
                            !.prunes = @ + 1, !.before = Some(fs)]]
    /\ UNCHANGED <<wf, fs, clock, docker, req, tmp_dockerfile>>

\* lines 59-61: one turn of the loop; works is whether the file system lets
\* the directory be removed.  rmtree is called with ignore_errors=True; an
\* exception of it would leave the loop, the pass and, in execute, the finally
\* clause, in place of the result or exception of the try block
PruneRemove(c, works) ==
    /\ call[c].pc = "prune_loop"
    /\ LoopCondition(call[c].run_dirs, call[c].max_runs)
    /\ LET oldest == Head(call[c].run_dirs)
           there  == oldest \in DOMAIN fs
           cl     == [call[c] EXCEPT !.run_dirs = Tail(@),
                                     !.removed = IF there /\ works
                                                 THEN @ \cup {oldest} ELSE @,
                                     !.failed = IF there /\ ~works
                                                THEN @ \cup {oldest} ELSE @,
                                     !.redundant = IF there THEN @
                                                   ELSE @ \cup {oldest}]
       IN  /\ there \/ works
           /\ fs' = Rmtree(fs, oldest, works)
           /\ call' = [call EXCEPT ![c] =
                         IF RmtreeRaises(TRUE, there /\ ~works)
                         THEN [cl EXCEPT !.exc = "OSError", !.result = None,
                                         !.pc = "done"]
                         ELSE cl]
    /\ UNCHANGED <<wf, clock, docker, req, tmp_dockerfile>>

\* the loop ends: _cleanup_old_runs returns, and execute, if it is the caller,
\* returns its result or lets its exception go on
PruneReturn(c) ==
    /\ call[c].pc = "prune_loop"
    /\ ~LoopCondition(call[c].run_dirs, call[c].max_runs)
    /\ call' = [call EXCEPT ![c].pc = "done"]
    /\ UNCHANGED <<wf, fs, clock, docker, req, tmp_dockerfile>>

\* the caller has its result or its exception and is free for another call
Finish(c) ==
    /\ call[c].pc = "done"
    /\ call' = [call EXCEPT ![c] = IdleCall]
    /\ UNCHANGED <<wf, fs, clock, docker, req, tmp_dockerfile>>

\* a microsecond passes
Tick ==
    /\ clock < MaxClock
    /\ clock' = clock + 1
    /\ UNCHANGED <<wf, fs, call, docker, req, tmp_dockerfile>>

\* _cleanup_old_runs(max_runs) called on its own
PruneCall(c, max_runs) ==
    /\ \A x \in Callers : call[x].pc = "idle"
    /\ call' = [call EXCEPT ![c] =
                  [IdleCall EXCEPT !.pc = "cleanup", !.max_runs = max_runs,
                                   !.direct = TRUE]]
    /\ UNCHANGED <<wf, fs, clock, docker, req, tmp_dockerfile>>

-----------------------------------------------------------------------------
(* Spec: one caller running execute again and again, on every request and
   every state of the backend *)

\* the caller of Spec
Solo == {"a"}

DockerStates ==
    {d \in [daemon : {"up", "down"}, socket : BOOLEAN, image : BOOLEAN,
            other : {FALSE}, override : {None}, okBuilds : {0}, rebuilds : {0}] :
        d.daemon = "up" => d.socket}

Init ==
    /\ fs = <<>>
    /\ clock = 0
    /\ call = [c \in Callers |-> IdleCall]
    /\ docker \in DockerStates
    /\ req \in Requests
    /\ tmp_dockerfile = None
    /\ wf = NewWorkflow(0)

Next ==
    \/ \E c \in Solo, disk \in BOOLEAN : Create(c, disk)
    \/ \E c \in Solo : Populate(c)
    \/ \E c \in Solo : EnsureImageStep(c)
    \/ \E c \in Solo : RunStep(c)
    \/ \E c \in Solo : PruneList(c)
    \/ \E c \in Solo, works \in BOOLEAN : PruneRemove(c, works)
    \/ \E c \in Solo : PruneReturn(c)
    \/ \E c \in Solo : Finish(c)
    \/ Tick

Spec == Init /\ [][Next]_vars

-----------------------------------------------------------------------------
(* SpecRace: two callers running execute on the same run root, the backend up
   with the image built, both passing the plain request *)

InitRace ==
    /\ fs = <<>>
    /\ clock = 0
    /\ call = [c \in Callers |-> IdleCall]
    /\ docker = DockerUp
    /\ req = Request(Hello, NsEmpty)
    /\ tmp_dockerfile = None
    /\ wf = NewWorkflow(0)

NextRace ==
    \/ \E c \in Callers, disk \in BOOLEAN : Create(c, disk)
    \/ \E c \in Callers : Populate(c)
    \/ \E c \in Callers : EnsureImageStep(c)
    \/ \E c \in Callers : RunStep(c)
    \/ \E c \in Callers : PruneList(c)
    \/ \E c \in Callers, works \in BOOLEAN : PruneRemove(c, works)
    \/ \E c \in Callers : PruneReturn(c)
    \/ \E c \in Callers : Finish(c)
    \/ Tick

SpecRace == InitRace /\ [][NextRace]_vars

-----------------------------------------------------------------------------
(* SpecPrune: one prune pass at a time over an arbitrary run root *)

\* names of the run root that are no run identifiers
Sloppy == RunPrefix \o <<"2", "0", "2", "4", "1", "3", "1", "_",
                         "0", "0", "0", "0", "0", "0", "_", "5">>
Feb30 == RunPrefix \o <<"2", "0", "2", "4", "0", "2", "3", "0", "_",
                        "0", "0", "0", "0", "0", "0", "_",
                        "0", "0", "0", "0", "0", "0">>
\* a name strptime reads as Epoch0, its day not padded
Unpadded == RunPrefix \o <<"2", "0", "2", "4", "0", "1", "1", "_",
                           "0", "0", "0", "0", "0", "0", "_", "0">>
RunX == RunPrefix \o <<"x">>
NoPrefix == Strftime(Now(0))

StampNames == {RunName(Now(t)) : t \in 0..MaxClock}
OddNames == {Sloppy, Feb30, RunX, NoPrefix}

\* every inventory with the stamped names as directory, file or absent and
\* the odd names as directory or absent
Inventories ==
    UNION {[S -> {DirEntry(NoFiles, NoFiles), FileEntry}] :
             S \in SUBSET StampNames}

OddInventories ==
    {[n \in S |-> DirEntry(NoFiles, NoFiles)] : S \in SUBSET OddNames}

InitPrune ==
    /\ \E a \in Inventories, b \in OddInventories : fs = a @@ b
    /\ clock = 0
    /\ call = [c \in Callers |-> IdleCall]
    /\ docker = DockerUp
    /\ req = Request(Hello, NsEmpty)
    /\ tmp_dockerfile = None
    /\ wf = NewWorkflow(0)

NextPrune ==
    \/ \E c \in Callers, n \in 0..MaxLimit : PruneCall(c, n)
    \/ \E c \in Callers : PruneList(c)
    \/ \E c \in Callers, works \in BOOLEAN : PruneRemove(c, works)
    \/ \E c \in Callers : PruneReturn(c)
    \/ \E c \in Callers : Finish(c)

SpecPrune == InitPrune /\ [][NextPrune]_vars

-----------------------------------------------------------------------------
(* SpecPruneRace: two callers pruning one run root at the same time *)

\* _cleanup_old_runs(max_runs) called while another pass may be under way
PruneStart(c, max_runs) ==
    /\ call[c].pc = "idle"
    /\ call' = [call EXCEPT ![c] =
                  [IdleCall EXCEPT !.pc = "cleanup", !.max_runs = max_runs,
                                   !.direct = TRUE]]
    /\ UNCHANGED <<wf, fs, clock, docker, req, tmp_dockerfile>>

\* the run directories of earlier runs
RaceInventories ==
    {[n \in S |-> DirEntry(NoFiles, NoFiles)] : S \in SUBSET StampNames}

\* the limits of the concurrent passes
RaceLimits == {MaxLimit - 1, MaxLimit}

InitPruneRace ==
    /\ fs \in RaceInventories
    /\ clock = 0
    /\ call = [c \in Callers |-> IdleCall]
    /\ docker = DockerUp
    /\ req = Request(Hello, NsEmpty)
    /\ tmp_dockerfile = None
    /\ wf = NewWorkflow(0)

NextPruneRace ==
    \/ \E c \in Callers, n \in RaceLimits : PruneStart(c, n)
    \/ \E c \in Callers : PruneList(c)
    \/ \E c \in Callers, works \in BOOLEAN : PruneRemove(c, works)
    \/ \E c \in Callers : PruneReturn(c)

SpecPruneRace == InitPruneRace /\ [][NextPruneRace]_vars

-----------------------------------------------------------------------------
(* SpecStuck: one caller running execute again and again over a run root    *)
(* that has the directories of earlier runs, some of which the file system  *)
(* does not let go                                                          *)

InitStuck ==
    /\ \E S \in SUBSET (StampNames \cup {Sloppy, Unpadded}) :
          fs = [n \in S |-> DirEntry(NoFiles, NoFiles)]
    /\ clock = 0
    /\ call = [c \in Callers |-> IdleCall]
    /\ docker = DockerUp
    /\ req = Request(Hello, NsEmpty)
    /\ tmp_dockerfile = None
    /\ wf = NewWorkflow(0)

SpecStuck == InitStuck /\ [][Next]_vars

-----------------------------------------------------------------------------
(* SpecSelect: one execute of every short code text over a few characters,
   with every namespace over an ASCII and a non-ASCII name, the backend up
   with the image built *)

ascii == <<"x">>
eacute == <<"é">>

SelectChars == {"x", "é", "1", ";", "#", "'"}

Texts == UNION {[1..n -> SelectChars] : n \in 1..MaxText}

\* keys that are no identifiers: ../x and 1x
UpAndOut == <<".", ".", "/", "x">>
DigitFirst == <<"1", "x">>

SelectNamespaces ==
    {NsEmpty,
     <<<<ascii, Value("str", "A")>>>>,
     <<<<eacute, Value("str", "B")>>>>,
     <<<<ascii, Value("str", "A")>>, <<eacute, Value("str", "B")>>>>,
     <<<<UpAndOut, Value("str", "C")>>, <<DigitFirst, Value("str", "D")>>,
       <<ascii, Value("str", "A")>>>>}

InitSelect ==
    /\ fs = <<>>
    /\ clock = 0
    /\ call = [c \in Callers |-> IdleCall]
    /\ docker = DockerUp
    /\ \E text \in Texts, ns \in SelectNamespaces : req = Request(Compile(text), ns)
    /\ tmp_dockerfile = None
    /\ wf = NewWorkflow(0)

\* the run root is empty at the start and the execute is not repeated, so the
\* prune pass has nothing to remove
NextSelect ==
    \/ \E c \in Solo : Create(c, TRUE)
    \/ \E c \in Solo : Populate(c)
    \/ \E c \in Solo : EnsureImageStep(c)
    \/ \E c \in Solo : RunStep(c)
    \/ \E c \in Solo : PruneList(c)
    \/ \E c \in Solo : PruneReturn(c)

SpecSelect == InitSelect /\ [][NextSelect]_vars

-----------------------------------------------------------------------------
(* SpecMarshal: one execute of code that reads one variable, for every value
   of the supported kinds up to MaxItems items, the backend up with the image
   built *)

Atoms == {Value("int", "0"), Value("int", "42"), Value("float", "3.14"),
          Value("str", "A")}

ItemSeqs == UNION {[1..n -> Atoms] : n \in 0..MaxItems}

Lists == {Container("list", q) : q \in ItemSeqs}

\* mappings with the keys 1, 2, ...
Dicts ==
    {Container("dict", [i \in 1..Len(q) |-> Item(Value("int", DigitChars[i + 1]), q[i])]) :
        q \in ItemSeqs}

Nested ==
    Container("list", <<Container("list", <<Value("int", "0")>>),
                        Container("dict", <<>>)>>)

CellSeqs == UNION {[1..n -> Atoms] : n \in 0..1}

Tables ==
    {Container("table", <<>>)}
    \cup {Container("table", <<Column("a", "int64", q)>>) : q \in CellSeqs}
    \cup {Container("table", <<Column("a", "object", q), Column("b", "float64", q)>>) :
             q \in CellSeqs}

MarshalValues == Atoms \cup Lists \cup Dicts \cup {Nested} \cup Tables

InitMarshal ==
    /\ fs = <<>>
    /\ clock = 0
    /\ call = [c \in Callers |-> IdleCall]
    /\ docker = DockerUp
    /\ \E value \in MarshalValues :
          req = Request(Compile(ascii), <<<<ascii, value>>>>)
    /\ tmp_dockerfile = None
    /\ wf = NewWorkflow(0)

NextMarshal ==
    \/ \E c \in Solo : Create(c, TRUE)
    \/ \E c \in Solo : Populate(c)
    \/ \E c \in Solo : EnsureImageStep(c)
    \/ \E c \in Solo : RunStep(c)
    \/ \E c \in Solo : PruneList(c)
    \/ \E c \in Solo : PruneReturn(c)

SpecMarshal == InitMarshal /\ [][NextMarshal]_vars

-----------------------------------------------------------------------------
(* SpecImage: one caller running execute again and again with the plain
   request, on every state of the backend, with CODEGEN_AGENT_RUNNER_IMAGE
   unset or naming another image that is or is not in the local store *)

ImageStates ==
    {d \in [daemon : {"up", "down"}, socket : BOOLEAN, image : BOOLEAN,
            other : BOOLEAN, override : {None, Some(OtherImage)},
            okBuilds : {0}, rebuilds : {0}] :
        d.daemon = "up" => d.socket}

InitImage ==
    /\ fs = <<>>
    /\ clock = 0
    /\ call = [c \in Callers |-> IdleCall]
    /\ docker \in ImageStates
    /\ req = Request(Hello, NsEmpty)
    /\ tmp_dockerfile = None
    /\ wf = NewWorkflow(0)

SpecImage == InitImage /\ [][Next]_vars

-----------------------------------------------------------------------------
(* SpecBuildRace: two callers in ensure_image at the same time, for the     *)
(* default image, which is not in the local store; ensure_image step by     *)
(* step, with the file ./tmp_dockerfile both callers write, pass to docker  *)
(* build and unlink                                                         *)

\* the text of sandbox/Dockerfile.runner
Definition == "FROM python:3.13-slim"

\* the completed process of docker build -f ./tmp_dockerfile when there is no
\* such file
BuildProcNoFile ==
    [rc |-> 1, stdout |-> "",
     stderr |-> "unable to prepare context: unable to evaluate symlinks in Dockerfile path: lstat ./tmp_dockerfile: no such file or directory"]

\* the same when the file has nothing in it
BuildProcEmptyFile ==
    [rc |-> 1, stdout |-> "",
     stderr |-> "the Dockerfile (tmp_dockerfile) cannot be empty"]

\* docker build reads the file named by -f when it starts: the outcomes of
\* the build of image name with the file as it is
DockerBuild(d, file) ==
    IF file = None THEN {BuildProcNoFile}
    ELSE IF The(file) = "" THEN {BuildProcEmptyFile}
    ELSE {BuildProc(d, rc) : rc \in BuildStatuses(d)}

\* timeout = 10 of ensure_docker: the sleeps of one second the polling loop
\* makes before it gives up
Timeout == 10

\* _run: the command subprocess.run is given; on Windows docker and dockerd
\* go through wsl.exe
RunCommand(is_windows, cmd) ==
    IF is_windows /\ cmd[1] \in {"docker", "dockerd"} THEN <<"wsl.exe">> \o cmd
    ELSE cmd

\* subprocess.Popen(cmd, ...): the command as it is
Popen(is_windows, cmd) == cmd

\* a polling loop that gives up one turn early
ExpiredEarly(timeout) == timeout <= 1

\* the test of the polling loop that raises
Expired(timeout) == timeout <= 0

\* a process of the runtime was launched with the command cmd
Launched(cl, cmd) == [cl EXCEPT !.launched = Append(@, cmd)]

\* lines 31-33: docker ps, and the return of ensure_docker when its status is 0
DockerPs(c) ==
    /\ call[c].pc = "idle"
    /\ LET cl == [IdleCall EXCEPT !.is_windows = call[c].is_windows,
                                  !.image = RuntimeImage(None, docker.override)]
           ps == Launched(cl, RunCommand(cl.is_windows, <<"docker", "ps">>))
       IN  call' = [call EXCEPT ![c] =
                      IF docker.daemon = "up"
                      THEN [ps EXCEPT !.pc = "inspect", !.checked = "probe"]
                      ELSE [ps EXCEPT !.pc = "start_daemon"]]
    /\ UNCHANGED <<wf, fs, clock, docker, req, tmp_dockerfile>>

\* lines 37-41: the log file opened (log: whether it can be), dockerd started
\* with Popen, the countdown set
StartDaemon(c, log) ==
    /\ call[c].pc = "start_daemon"
    /\ call' = [call EXCEPT ![c] =
                  IF ~log
                  THEN [@ EXCEPT !.pc = "raised", !.exc = "OSError",
                                 !.failedAt = "daemon", !.infra = "daemon"]
                  ELSE [Launched(@, Popen(@.is_windows, <<"dockerd">>))
                          EXCEPT !.pc = "poll", !.started = @ + 1,
                                 !.timeout = Timeout]]
    /\ UNCHANGED <<wf, fs, clock, docker, req, tmp_dockerfile>>

\* lines 42-46: one turn of the polling loop: the return when the socket is
\* there, the RuntimeError when the countdown is over, else a sleep of one
\* second
Poll(c) ==
    /\ call[c].pc = "poll"
    /\ call' = [call EXCEPT ![c] =
                  IF docker.socket
                  THEN [@ EXCEPT !.pc = "inspect", !.checked = "socket"]
                  ELSE IF Expired(@.timeout)
                  THEN [@ EXCEPT !.pc = "raised", !.exc = "RuntimeError",
                                 !.failedAt = "daemon", !.infra = "daemon"]
                  ELSE [@ EXCEPT !.slept = @ + 1, !.timeout = @ - 1]]
    /\ UNCHANGED <<wf, fs, clock, docker, req, tmp_dockerfile>>

\* the dockerd that was started makes its control socket
SocketAppears ==
    /\ \E c \in Callers : call[c].started > 0
    /\ ~docker.socket
    /\ docker' = [docker EXCEPT !.socket = TRUE]
    /\ UNCHANGED <<wf, fs, clock, call, req, tmp_dockerfile>>

\* the dockerd that was started accepts commands, its socket made
DaemonAccepts ==
    /\ \E c \in Callers : call[c].started > 0
    /\ docker.socket /\ docker.daemon = "down"
    /\ docker' = [docker EXCEPT !.daemon = "up"]
    /\ UNCHANGED <<wf, fs, clock, call, req, tmp_dockerfile>>

\* lines 66-69: docker image inspect, and the return of the fast path
Inspect(c) ==
    /\ call[c].pc = "inspect"
    /\ call' = [call EXCEPT ![c] =
                  [Launched(@, RunCommand(@.is_windows,
                                          <<"docker", "image", "inspect", @.image>>))
                     EXCEPT !.pc = IF ProbeFinds(docker, call[c].image)
                                   THEN "ensured" ELSE "read_definition"]]
    /\ UNCHANGED <<wf, fs, clock, docker, req, tmp_dockerfile>>

\* line 74: the packaged definition is read, or its package is not there
ReadDefinition(c, found) ==
    /\ call[c].pc = "read_definition"
    /\ call' = [call EXCEPT ![c] =
                  IF found THEN [@ EXCEPT !.pc = "write"]
                  ELSE [@ EXCEPT !.pc = "raised", !.exc = "ModuleNotFoundError",
                                 !.failedAt = "definition",
                                 !.infra = "definition"]]
    /\ UNCHANGED <<wf, fs, clock, docker, req, tmp_dockerfile>>

\* lines 75-77: with open("./tmp_dockerfile", "w") as f: f.write(...); disk
\* is whether the file system takes the text: when it does not, the file is
\* there as open made it and OSError leaves ensure_image, the try block not
\* yet entered
WriteDefinition(c, disk) ==
    /\ call[c].pc = "write"
    /\ tmp_dockerfile' = IF disk THEN Some(Definition) ELSE Some("")
    /\ call' = [call EXCEPT ![c] =
                  IF disk THEN [@ EXCEPT !.pc = "build"]
                  ELSE [@ EXCEPT !.pc = "raised", !.exc = "OSError",
                                 !.failedAt = "definition",
                                 !.infra = "definition"]]
    /\ UNCHANGED <<wf, fs, clock, docker, req>>

\* lines 79-91: docker build and the RuntimeError of a failed build
Build(c) ==
    /\ call[c].pc = "build"
    /\ \E proc \in DockerBuild(docker, tmp_dockerfile) :
          /\ docker' = AfterBuild(docker, proc.rc, call[c].image)
          /\ call' = [call EXCEPT ![c] =
                        LET cl == [Launched(@, RunCommand(@.is_windows,
                                                          BuildCommand(@.image)))
                                     EXCEPT !.pc = "unlink", !.builds = @ + 1,
                                            !.build = Some(proc)]
                        IN  IF BuildRaises(proc.rc)
                            THEN [cl EXCEPT !.exc = "RuntimeError",
                                            !.failedAt = "build",
                                            !.infra = "build",
                                            !.msg = Some(BuildError(
                                                      BuildCommand(cl.image), proc))]
                            ELSE cl]
    /\ UNCHANGED <<wf, fs, clock, req, tmp_dockerfile>>

\* lines 92-93: finally: Path("./tmp_dockerfile").unlink(missing_ok=True)
Unlink(c) ==
    /\ call[c].pc = "unlink"
    /\ tmp_dockerfile' = None
    /\ call' = [call EXCEPT ![c].pc =
                  IF call[c].exc = NoExc THEN "ensured" ELSE "raised"]
    /\ UNCHANGED <<wf, fs, clock, docker, req>>

\* the daemon up and the image not in the local store; ./tmp_dockerfile not
\* there, or left over
InitBuildRace ==
    /\ fs = <<>>
    /\ clock = 0
    /\ call = [c \in Callers |-> IdleCall]
    /\ docker = [DockerUp EXCEPT !.image = FALSE]
    /\ req = Request(Hello, NsEmpty)
    /\ tmp_dockerfile \in {None, Some(Definition)}
    /\ wf = NewWorkflow(0)

NextBuildRace ==
    \/ \E c \in Callers : DockerPs(c)
    \/ \E c \in Callers : Inspect(c)
    \/ \E c \in Callers, found \in BOOLEAN : ReadDefinition(c, found)
    \/ \E c \in Callers, disk \in BOOLEAN : WriteDefinition(c, disk)
    \/ \E c \in Callers : Build(c)
    \/ \E c \in Callers : Unlink(c)

SpecBuildRace == InitBuildRace /\ [][NextBuildRace]_vars

-----------------------------------------------------------------------------
(* SpecDaemon: one call of ensure_image with ensure_docker step by step, on *)
(* either platform and in every state of the backend                        *)

InitDaemon ==
    /\ fs = <<>>
    /\ clock = 0
    /\ \E w \in BOOLEAN :
          call = [c \in Callers |-> [IdleCall EXCEPT !.is_windows = w]]
    /\ docker \in DockerStates
    /\ req = Request(Hello, NsEmpty)
    /\ tmp_dockerfile = None
    /\ wf = NewWorkflow(0)

NextDaemon ==
    \/ \E c \in Solo : DockerPs(c)
    \/ \E c \in Solo, log \in BOOLEAN : StartDaemon(c, log)
    \/ \E c \in Solo : Poll(c)
    \/ SocketAppears
    \/ DaemonAccepts
    \/ \E c \in Solo : Inspect(c)
    \/ \E c \in Solo, found \in BOOLEAN : ReadDefinition(c, found)
    \/ \E c \in Solo, disk \in BOOLEAN : WriteDefinition(c, disk)
    \/ \E c \in Solo : Build(c)
    \/ \E c \in Solo : Unlink(c)

SpecDaemon == InitDaemon /\ [][NextDaemon]_vars

-----------------------------------------------------------------------------
(* SpecWorkflow: AgentWorkflow.run, its sandbox executions those of the     *)
(* caller a                                                                 *)

\* the ceilings AgentWorkflow is made with are 0 .. MaxGenerations; agent.py
\* passes 3
MaxGenerations == 2

\* the code texts the model's code generation and assessment give
WorkflowCodes == {Hello, DivZero}

\* bool("") is False: whether a code text counts as given
Truthy(code) == Len(code.text) > 0

\* a loop that stops only on success
AfterAssessmentNoCeiling(assessment, count, max) ==
    IF assessment.success THEN "return"
    ELSE IF assessment.should_retry /\ Truthy(assessment.code) THEN "retry"
    ELSE "again"

\* lines 68-78: what follows the assessment: the return on success, the
\* return at the ceiling, the next turn with the code of the assessment, or,
\* none of the three tests holding, the end of the loop body and the next turn
\* of while True with current_code as it is
AfterAssessment(assessment, count, max) ==
    IF assessment.success THEN "return"
    ELSE IF count >= max THEN "return"
    ELSE IF assessment.should_retry /\ Truthy(assessment.code) THEN "retry"
    ELSE "again"

\* lines 42-44: the first generation
WfGenerate(code) ==
    /\ wf.pc = "new"
    /\ wf' = [wf EXCEPT !.pc = "execute", !.current_code = code]
    /\ UNCHANGED <<fs, clock, call, docker, req, tmp_dockerfile>>

\* line 48: sandbox_execute(self.current_code, self.request.user_variables)
\* is called
WfExecute ==
    /\ wf.pc = "execute"
    /\ call["a"].pc = "idle"
    /\ req' = Request(wf.current_code, NsEmpty)
    /\ wf' = [wf EXCEPT !.pc = "executing",
                        !.executions = Append(@, wf.current_code)]
    /\ UNCHANGED <<fs, clock, call, docker, tmp_dockerfile>>

\* the call of line 48 starts in the sandbox
WfCreate(disk) ==
    /\ wf.pc = "executing"
    /\ Create("a", disk)

\* line 48: the call returns its ExecutionResult, or its exception leaves run
WfCollect ==
    /\ wf.pc = "executing"
    /\ call["a"].pc = "done"
    /\ wf' = IF call["a"].exc # NoExc THEN [wf EXCEPT !.pc = "raised"]
             ELSE [wf EXCEPT !.pc = "assess",
                             !.execution_result = call["a"].result,
                             !.sessions = Append(@, call["a"].run_root)]
    /\ call' = [call EXCEPT !["a"] = IdleCall]
    /\ UNCHANGED <<fs, clock, docker, req, tmp_dockerfile>>

\* lines 52-78: the assessment, the count, the history, and what follows
WfAssess(assessment) ==
    /\ wf.pc = "assess"
    /\ LET count == wf.code_generation_count + 1
           w     == [wf EXCEPT !.assessment = assessment,
                               !.code_generation_count = count,
                               !.history = Append(@, [code |-> wf.current_code,
                                                      assessment |-> assessment])]
           after == AfterAssessment(assessment, count, wf.max_code_generation)
       IN  wf' = IF after = "return" THEN [w EXCEPT !.pc = "returned"]
                 ELSE IF after = "retry"
                 THEN [w EXCEPT !.pc = "execute", !.current_code = assessment.code]
                 ELSE [w EXCEPT !.pc = "execute"]
    /\ UNCHANGED <<fs, clock, call, docker, req, tmp_dockerfile>>

Assessments ==
    {Assessment(s, r, code) :
       s \in BOOLEAN, r \in BOOLEAN, code \in WorkflowCodes \cup {EmptyCode}}

\* the run root with a directory of an earlier run or without
InitWorkflow ==
    /\ \E S \in SUBSET {Sloppy} : fs = [n \in S |-> DirEntry(NoFiles, NoFiles)]
    /\ clock = 0
    /\ call = [c \in Callers |-> IdleCall]
    /\ docker = DockerUp
    /\ req = Request(Hello, NsEmpty)
    /\ tmp_dockerfile = None
    /\ \E n \in 0..MaxGenerations : wf = NewWorkflow(n)

NextWorkflow ==
    \/ \E code \in WorkflowCodes : WfGenerate(code)
    \/ WfExecute
    \/ \E disk \in BOOLEAN : WfCreate(disk)
    \/ Populate("a")
    \/ EnsureImageStep("a")
    \/ RunStep("a")
    \/ PruneList("a")
    \/ \E works \in BOOLEAN : PruneRemove("a", works)
    \/ PruneReturn("a")
    \/ WfCollect
    \/ \E assessment \in Assessments : WfAssess(assessment)
    \/ Tick

SpecWorkflow == InitWorkflow /\ [][NextWorkflow]_vars

-----------------------------------------------------------------------------
(* SpecBootstrap: the bootstrap script started in a container over an inputs
   directory that holds the script and any of: a code file, variable files
   that load, variable files that do not *)

\* a variable file cut off before STOP
Truncated == [fmt |-> "pickle", bytes |-> <<Op("MARK", "")>>]

\* a variable file: a saved string, a saved list, the empty file a refused
\* save leaves, a cut-off stream
PklContents ==
    {SaveVar(Value("str", "A")), SaveVar(Container("list", <<Value("int", "0")>>)),
     SaveVar(Value("module", "M")), Truncated}

BootCodes == {Hello, UseU, DivZero, Broken}

\* a directory with the file when there is one
Put(f, file, o) == IF o = None THEN f ELSE WithFile(f, file, The(o))

Maybe(S) == {None} \cup {Some(x) : x \in S}

BootInputs ==
    {Put(Put(Put(WithFile(NoFiles, PreludeFile, "prelude"), CodeFile, code),
             PklName(u), pu), PklName(v), pv) :
        code \in Maybe(BootCodes), pu \in Maybe(PklContents),
        pv \in Maybe(PklContents)}

\* the directory each caller mounts at /inputs and /outputs
MountOf(c) == <<c>>

\* python -u /inputs/prelude.py with the directory of the caller mounted:
\* run() from the first line to the end of the process
Main(c) ==
    /\ call[c].pc = "idle"
    /\ call[c].proc = None
    /\ LET entry == fs[MountOf(c)]
           proc  == ContainerProcess(entry.inputs, entry.outputs, Mounts)
       IN  /\ fs' = [fs EXCEPT ![MountOf(c)] = DirEntry(proc.inputs, proc.outputs)]
           /\ call' = [call EXCEPT ![c] =
                         [Passed(call[c], "main")
                             EXCEPT !.proc = Some(proc),
                                    !.inputsBefore = Some(entry.inputs)]]
    /\ UNCHANGED <<wf, clock, docker, req, tmp_dockerfile>>

InitBootstrap ==
    /\ \E ia \in BootInputs, ib \in BootInputs :
          /\ PklName(v) \notin DOMAIN ib
          /\ CodeFile \in DOMAIN ib => ib[CodeFile] = Hello
          /\ PklName(u) \in DOMAIN ib => ib[PklName(u)] = Truncated
          /\ fs = (MountOf("a") :> DirEntry(ia, NoFiles))
                  @@ (MountOf("b") :> DirEntry(ib, NoFiles))
    /\ clock = 0
    /\ call = [c \in Callers |-> IdleCall]
    /\ docker = DockerUp
    /\ req = Request(Hello, NsEmpty)
    /\ tmp_dockerfile = None
    /\ wf = NewWorkflow(0)

NextBootstrap == \E c \in Callers : Main(c)

SpecBootstrap == InitBootstrap /\ [][NextBootstrap]_vars

-----------------------------------------------------------------------------
(* Properties *)

\* the run-identifier convention: a directory whose name has the run_ prefix
\* and a suffix that parses as a timestamp of the format
Conforms(root, n) ==
    /\ root[n].kind = "dir"
    /\ StartsWith(n, RunPrefix)
    /\ Strptime(DropFirst(n, Len(RunPrefix))) # ValueError

\* the conforming directories of a root
Accepted(root) == {n \in DOMAIN root : Conforms(root, n)}

\* the k greatest names of S
Greatest(S, k) == {x \in S : Cardinality({y \in S : StrLess(x, y)}) < k}

InPass(c) == call[c].pc \in {"prune_loop", "done"} /\ call[c].prunes > 0

PassDone(c) == call[c].pc = "done" /\ call[c].prunes > 0

C3_OnePruneOnEveryExit ==
    \A c \in Callers : ~call[c].direct =>
        call[c].prunes = IF call[c].pc \in {"prune_loop", "done"} THEN 1 ELSE 0

\* an execute that raised in the daemon check of the container run and ended
\* after its prune pass
C3_Witness ==
    \E c \in Callers :
        /\ call[c].pc = "done"
        /\ call[c].exc # NoExc
        /\ call[c].failedAt = "daemon"
        /\ call[c].wrote # {}
        /\ call[c].prunes = 1

Range(q) == {q[i] : i \in 1..Len(q)}

\* the container process of the call exited by the code's doing
CodeRan(c) == call[c].proc # None /\ The(call[c].proc).origin = "code"

\* C4: when the sandboxed code ends with a non-zero status execute raises
\* nothing and returns a result with that status as returncode, the error
\* output (with the type name of an uncaught error) in stderr, and success
\* false.
C4_CodeFailureIsData ==
    \A c \in Callers :
        (CodeRan(c) /\ The(call[c].proc).rc # 0) =>
            LET proc == The(call[c].proc)
            IN  /\ call[c].exc = NoExc
                /\ call[c].result # None
                /\ The(call[c].result).returncode = proc.rc
                /\ proc.stderr # <<>> => The(call[c].result).stderr = proc.stderr
                /\ proc.error # NoError =>
                      proc.error \in Range(The(call[c].result).stderr)
                /\ ~Success(The(call[c].result))

\* an execute that returned after the code raised ZeroDivisionError
C4_Witness ==
    \E c \in Callers :
        /\ call[c].pc = "done"
        /\ CodeRan(c)
        /\ The(call[c].proc).error = "ZeroDivisionError"
        /\ The(call[c].result).returncode = 1

\* C5 as stated: every failure of the sandbox infrastructure is raised, so a
\* result with a non-zero returncode always comes from the code's own exit.
C5_NonZeroOnlyFromCode ==
    \A c \in Callers :
        (call[c].result # None /\ The(call[c].result).returncode # 0) => CodeRan(c)

\* C5 amended: a failed run-directory allocation, an error of the daemon
\* check, an unreadable image definition and a build that exits non-zero are
\* raised to the caller and never returned as a result; a failure of the
\* backend's run command itself is returned as a result with the backend's
\* status, so a result comes either from the container process or from a
\* failed run command.
C5_InfraRaisedExceptRun ==
    \A c \in Callers :
        /\ call[c].infra \in {"mkdir", "daemon", "definition", "build"} =>
              call[c].exc # NoExc /\ call[c].result = None
        /\ call[c].result # None =>
              /\ call[c].exc = NoExc
              /\ call[c].infra \in {"none", "backend_run"}
              /\ call[c].infra = "backend_run" <=>
                    The(call[c].proc).origin = "backend"
              /\ call[c].infra = "backend_run" =>
                    The(call[c].result).returncode = 125

\* an execute that ended raising the error of a failed image build
C5_Witness ==
    \E c \in Callers :
        /\ call[c].pc = "done"
        /\ call[c].infra = "build"
        /\ call[c].builds = 1
        /\ call[c].exc = "RuntimeError"
        /\ call[c].result = None

\* C6: the container runs with inputs read-only and outputs read-write: no
\* write or delete under the input mount takes effect, the host inputs are
\* after the run what they were before it, and only operations under the
\* input mount are refused (a write under the output mount is in outputs).
C6_InputsReadOnly ==
    \A c \in Callers : call[c].proc # None =>
        LET proc == The(call[c].proc)
        IN  /\ \A w \in proc.written : w[1] = "outputs" /\ w[2] \in DOMAIN proc.outputs
            /\ \A w \in proc.denied : w[1] = "inputs"
            /\ proc.inputs = The(call[c].inputsBefore)

\* a run whose code tried to create a file under the input mount and got
\* OSError
C6_Witness ==
    \E c \in Callers :
        /\ call[c].proc # None
        /\ <<"inputs", <<"x">>>> \in The(call[c].proc).denied
        /\ The(call[c].proc).error = "OSError"

\* the call has made its run directory
Created(c) == call[c].mkdirs = 1 /\ call[c].infra # "mkdir"

\* C7: the name of a run directory determines the timestamp of its call
\* (calls at different microseconds get different directories); an execute
\* whose identifier is taken raises FileExistsError, writes nothing, tries
\* no other identifier, and leaves the directory that has the name as it was.
C7_NoSilentOverwrite ==
    \A c \in Callers :
        /\ Created(c) =>
              Strptime(DropFirst(call[c].run_root, 4)) = Parsed(call[c].timestamp)
        /\ call[c].existing # None =>
              /\ call[c].exc = "FileExistsError"
              /\ call[c].wrote = {}
              /\ call[c].mkdirs = 1
              /\ call[c].result = None
              /\ call[c].run_root \in DOMAIN fs
              /\ fs[call[c].run_root] = The(call[c].existing)

\* an execute at the microsecond of an earlier one that had populated its
\* directory, ended with FileExistsError
C7_Witness ==
    \E c \in Callers :
        /\ call[c].pc = "done"
        /\ call[c].exc = "FileExistsError"
        /\ call[c].existing # None
        /\ CodeFile \in DOMAIN The(call[c].existing).inputs

\* C8 as stated: the run directory of a call that is between making the
\* directory and its own prune pass is in the run root (no other caller's
\* pass removes it).
C8_RunDirKeptWhileInUse ==
    \A c \in Callers :
        call[c].pc \in {"populate", "ensure_image", "run"} =>
            call[c].run_root \in DOMAIN fs

\* the outputs of the print statements before the first exit statement
OutputBeforeExit(body) ==
    LET stop == CHOOSE i \in 1..Len(body) :
                   body[i][1] = "exit" /\ \A j \in 1..(i - 1) : body[j][1] # "exit"
    IN  [i \in 1..(stop - 1) |-> body[i][2]]

\* the call's code ended by sys.exit
Exited(c) == CodeRan(c) /\ The(call[c].proc).exitArg # None

\* C9 as stated: for every k, code that calls sys.exit(k) makes execute return
\* returncode k.
C9_ExitCodeVerbatim ==
    \A c \in Callers :
        (Exited(c) /\ call[c].result # None) =>
            The(call[c].result).returncode = The(The(call[c].proc).exitArg)

\* C9 amended: code that calls sys.exit(k) makes execute return returncode
\* k mod 256, which is k for k in 0..255; stdout is what was printed before
\* the exit call and nothing after it.
C9_ExitCodeLowByte ==
    \A c \in Callers :
        Exited(c) =>
            LET k == The(The(call[c].proc).exitArg)
                result == The(call[c].result)
            IN  /\ call[c].exc = NoExc
                /\ result.returncode = k % 256
                /\ k \in 0..255 => result.returncode = k
                /\ result.stdout = OutputBeforeExit(call[c].code.body)
                /\ "after" \notin Range(result.stdout)

\* an execute that returned 42 for code calling sys.exit(42)
C9_Witness ==
    \E c \in Callers :
        /\ call[c].pc = "done"
        /\ Exited(c)
        /\ The(The(call[c].proc).exitArg) = 42
        /\ The(call[c].result).returncode = 42
        /\ The(call[c].result).stdout = <<"before">>

\* the call has written its inputs
Populated(c) ==
    call[c].pc \in {"ensure_image", "run", "cleanup", "prune_loop", "done"}
    /\ call[c].failedAt \notin {"create", "write"}

\* C10 as stated: every namespace key the code reads as a variable is selected
\* and serialized, and code whose names are all namespace keys does not end
\* with NameError in the sandbox.
C10_ReferencedKeysSelected ==
    \A c \in Callers :
        /\ Populated(c) =>
              \A key \in Keys(call[c].variables) \cap References(call[c].code.text) :
                  /\ key \in Keys(FindUsedVariables(call[c].code.text,
                                                    call[c].variables))
                  /\ PklName(key) \in call[c].wrote
        /\ (CodeRan(c) /\ References(call[c].code.text) \subseteq Keys(call[c].variables))
              => The(call[c].proc).error # "NameError"

\* key is in text as a whole token: an occurrence with no word character
\* right before it and none right after it
OccursAsToken(text, key) ==
    \E i \in 1..Len(text) :
        LET j == i + Len(key) - 1
        IN  /\ Len(key) > 0
            /\ j <= Len(text)
            /\ SubSeq(text, i, j) = key
            /\ i = 1 \/ ~IsWordChar(text[i - 1])
            /\ j = Len(text) \/ ~IsWordChar(text[j + 1])

\* the variable files the call has written
VarFiles(c) == call[c].wrote \ {CodeFile, PreludeFile}

\* C11: the used-variable selection gives a sub-mapping of the namespace: each
\* variable file written is that of a namespace key that is in the code text as
\* a whole token and holds that key's value, and no key that is not in the
\* text as a token gets a file.
C11_SelectionIsSubMapping ==
    \A c \in Callers : Populated(c) =>
        LET cl  == call[c]
            ins == fs[cl.run_root].inputs
        IN  /\ \A file \in VarFiles(c) :
                  \E i \in 1..Len(cl.variables) :
                      /\ file = PklName(cl.variables[i][1])
                      /\ OccursAsToken(cl.code.text, cl.variables[i][1])
                      /\ ins[file] = SaveVar(cl.variables[i][2])
            /\ \A key \in Keys(cl.variables) :
                  ~OccursAsToken(cl.code.text, key) => PklName(key) \notin VarFiles(c)

\* an execute with two keys in the namespace of which the text has one: that
\* one has its file, the other has none
C11_Witness ==
    \E c \in Callers :
        /\ Populated(c)
        /\ Keys(call[c].variables) = {ascii, eacute}
        /\ call[c].code.text = <<"x", ";", "1">>
        /\ VarFiles(c) = {PklName(ascii)}

\* C12: a value of a supported kind saved on the host and loaded by the
\* bootstrap is in the namespace of the code under its name, of the same kind
\* and equal to the original.
C12_RoundTrip ==
    \A c \in Callers : CodeRan(c) =>
        \A i \in 1..Len(call[c].variables) :
            LET key   == call[c].variables[i][1]
                value == call[c].variables[i][2]
                ns    == The(call[c].proc).ns
            IN  PklName(key) \in VarFiles(c) =>
                   /\ key \in DOMAIN ns
                   /\ ns[key].kind = value.kind
                   /\ ns[key] = value

\* code that ran with a two-column table loaded from its file
C12_Witness ==
    \E c \in Callers :
        /\ CodeRan(c)
        /\ The(call[c].proc).rc = 0
        /\ ascii \in DOMAIN The(call[c].proc).ns
        /\ The(call[c].proc).ns[ascii].kind = "table"
        /\ Len(The(call[c].proc).ns[ascii].items) = 2
        /\ Len(The(call[c].proc).ns[ascii].items[1].items[2].items) = 1

\* C13: once a build has ended with status 0 no later ensure_image goes past
\* the probe (no definition file written, no build command issued), so that
\* from an absent image at most one build succeeds however many calls follow
\* (the backend keeps running and nothing else removes the image).
C13_BuildOnce ==
    /\ docker.rebuilds = 0
    /\ docker.okBuilds <= 1
    /\ docker.okBuilds = 1 => docker.image
    /\ \A c \in Callers :
          (call[c].builds = 1 /\ call[c].exc = NoExc /\ call[c].pc = "run") =>
              docker.okBuilds = 1

\* a second execute that passed ensure_image without a build after the first
\* one had built the image
C13_Witness ==
    \E c \in Callers :
        /\ call[c].pc = "run"
        /\ call[c].builds = 0
        /\ clock > 0
        /\ docker.okBuilds = 1

\* C14: when the build command of a call ends with a non-zero status,
\* ensure_image raises an error whose message has the build command, the
\* status and the captured stdout and stderr of the build; execute lets it
\* through, with no container run and no result in that call.
C14_BuildErrorCarriesDiagnosis ==
    \A c \in Callers :
        (call[c].build # None /\ The(call[c].build).rc # 0) =>
            LET build == The(call[c].build)
            IN  /\ call[c].exc = "RuntimeError"
                /\ call[c].failedAt = "build"
                /\ call[c].msg # None
                /\ The(call[c].msg).command = BuildCommand(call[c].image)
                /\ The(call[c].msg).rc = build.rc
                /\ The(call[c].msg).stdout = build.stdout
                /\ The(call[c].msg).stderr = build.stderr
                /\ call[c].proc = None
                /\ call[c].result = None
                /\ call[c].pc \in {"cleanup", "prune_loop", "done"}

\* an execute that ended with the error of a build that failed with the
\* daemon up and the image absent
C14_Witness ==
    \E c \in Callers :
        /\ call[c].pc = "done"
        /\ call[c].build # None
        /\ The(call[c].build).rc = 1
        /\ The(call[c].build).stderr = "ERROR: failed to solve"
        /\ call[c].exc = "RuntimeError"
        /\ docker.daemon = "up" /\ ~docker.image

\* C15: the result of a container run has the stdout and the status of the
\* process unchanged, and as stderr the stdout of the process when the status
\* is not 0 and the captured stderr is empty, the captured stderr otherwise.
C15_StderrFallback ==
    \A c \in Callers : call[c].proc # None =>
        LET proc   == The(call[c].proc)
            result == The(call[c].result)
        IN  /\ result.stdout = proc.stdout
            /\ result.returncode = proc.rc
            /\ (proc.rc # 0 /\ proc.stderr = <<>>) => result.stderr = proc.stdout
            /\ (proc.rc = 0 \/ proc.stderr # <<>>) => result.stderr = proc.stderr

\* a run that ended with status 42 and nothing on stderr: the result has the
\* stdout as stderr
C15_Witness ==
    \E c \in Callers :
        /\ call[c].proc # None
        /\ The(call[c].proc).rc = 42
        /\ The(call[c].proc).stderr = <<>>
        /\ The(call[c].result).stderr = <<"before">>

\* C16 as stated: when CODEGEN_AGENT_RUNNER_IMAGE is set, an execute runs
\* the container on the image it names and invokes no build.
C16_OverrideBypassesBuild ==
    \A c \in Callers :
        docker.override # None =>
            /\ call[c].builds = 0
            /\ call[c].proc # None => call[c].image = The(docker.override)

\* C17: when two prune passes run over one run root at the same time, neither
\* raises, no directory is removed twice, the only delete attempts that find
\* nothing are those on a directory the other pass has removed, and neither
\* pass removes a directory among the N most recent of either pass's listing
\* when both use the limit N.
C17_ConcurrentPrunesAreSafe ==
    \A c \in Callers : InPass(c) =>
        LET d == CHOOSE x \in Callers : x # c
        IN  /\ call[c].exc = NoExc
            /\ call[c].removed \cap call[d].removed = {}
            /\ call[c].redundant \subseteq call[d].removed
            /\ call[c].removed \cap
                  Greatest(Accepted(The(call[c].before)), call[c].max_runs) = {}
            /\ (InPass(d) /\ call[d].max_runs = call[c].max_runs) =>
                  call[c].removed \cap
                    Greatest(Accepted(The(call[d].before)), call[d].max_runs)
                      = {}

\* both passes are over with the same limit, each removed a directory and one
\* of them tried to delete a directory the other had already removed
C17_Witness ==
    /\ \A c \in Callers : PassDone(c) /\ call[c].removed # {}
    /\ call["a"].max_runs = call["b"].max_runs
    /\ call["a"].max_runs > 0
    /\ call["a"].redundant # {}
    /\ Cardinality(Accepted(fs)) = call["a"].max_runs

\* ensure_image has returned or raised
Ensured(c) == call[c].pc \in {"ensured", "raised"}

\* nothing went wrong in the call of c that has to do with neither caller's
\* file: the definition was read and the build, given its file, succeeded
BuildItselfSucceeded(c) ==
    /\ call[c].failedAt # "definition"
    /\ call[c].build # None =>
          \/ The(call[c].build).rc = 0
          \/ The(call[c].build) = BuildProcNoFile

\* C18: when two callers are in ensure_image at the same time for the image
\* that is not there, and the builds themselves succeed, both calls return
\* without an exception, at most two builds are run, the image is there
\* afterwards, and no build fails for the want of its definition file.
C18_ConcurrentEnsureImageBothSucceed ==
    (\A c \in Callers : BuildItselfSucceeded(c)) =>
        /\ \A c \in Callers : call[c].build # Some(BuildProcNoFile)
        /\ (\A c \in Callers : Ensured(c)) =>
              /\ \A c \in Callers : call[c].exc = NoExc
              /\ call["a"].builds + call["b"].builds <= 2
              /\ docker.image

\* the stages of execute in their order
StageOrder == <<"created", "populated", "ensured", "run", "returned">>

\* the files execute has to write under inputs for the request of the call
InputFiles(cl) ==
    {CodeFile, PreludeFile}
      \cup {PklName(FindUsedVariables(cl.code.text, cl.variables)[i][1]) :
               i \in 1..Len(FindUsedVariables(cl.code.text, cl.variables))}

\* the number of stages passed before the one that failed
StagesBefore(stage) ==
    CASE stage = "create" -> {0}
      [] stage \in {"write", "serialize"} -> {1}
      [] stage \in {"definition", "build"} -> {2}
      [] stage = "daemon" -> {2, 3}

\* C19: within one execute call the stages passed are, at any time, the first
\* few of created, populated, image ensured, run, returned, in that order and
\* each once; the container has run only after the code file, the bootstrap
\* script and every selected variable were written; after a failure at a
\* stage no further stage is passed, nothing is returned and the call goes on
\* to its one prune pass.
C19_StagesInOrderOnce ==
    \A c \in Callers : (call[c].pc # "idle" /\ ~call[c].direct) =>
        LET cl == call[c]
            t  == cl.stages
        IN  /\ Len(t) <= Len(StageOrder)
            /\ t = SubSeq(StageOrder, 1, Len(t))
            /\ cl.mkdirs = 1
            /\ cl.proc # None <=> Len(t) = Len(StageOrder)
            /\ cl.proc # None =>
                  /\ cl.wrote = InputFiles(cl)
                  /\ cl.wrote \subseteq DOMAIN The(cl.inputsBefore)
            /\ cl.failedAt # "none" =>
                  /\ cl.pc \in {"cleanup", "prune_loop", "done"}
                  /\ cl.result = None
                  /\ Len(t) \in StagesBefore(cl.failedAt)
            /\ cl.pc = "done" => cl.prunes = 1

\* a call that passed all five stages with a selected variable written, and
\* is through its prune pass
C19_Witness ==
    \E c \in Callers :
        /\ call[c].pc = "done"
        /\ call[c].stages = StageOrder
        /\ Cardinality(call[c].wrote) > 2
        /\ call[c].result # None

\* the directories a pass found in excess of its limit
Excess(c) ==
    Accepted(The(call[c].before))
      \ Greatest(Accepted(The(call[c].before)), call[c].max_runs)

\* the directories a pass has tried to remove
Attempted(c) == call[c].removed \cup call[c].failed \cup call[c].redundant

\* C20: a prune pass in which removals fail still tries every directory in
\* excess of its limit, one per turn of its loop, and ends; it raises nothing,
\* neither to its own caller nor to the caller of execute: the call ends with
\* an exception only when a stage of execute failed, and with the result of
\* the container run when there was one.
C20_RemovalFailuresSwallowed ==
    \A c \in Callers : InPass(c) =>
        LET cl == call[c]
        IN  /\ Attempted(c) \subseteq Excess(c)
            /\ Cardinality(Attempted(c)) + Len(cl.run_dirs)
                  = Cardinality(Accepted(The(cl.before)))
            /\ PassDone(c) => Attempted(c) = Excess(c)
            /\ cl.exc # NoExc <=> cl.failedAt # "none"
            /\ cl.direct => cl.exc = NoExc
            /\ cl.result = IF cl.proc = None THEN None
                           ELSE Some(ExecutionResult(The(cl.proc)))

\* an execute whose prune pass could not remove one directory, removed
\* another, and which returned the result of its run
C20_Witness ==
    \E c \in Callers :
        /\ PassDone(c) /\ ~call[c].direct
        /\ call[c].failed # {}
        /\ call[c].removed # {}
        /\ call[c].result # None
        /\ call[c].exc = NoExc

\* the call of ensure_image within the execute of c is over and went past
\* the reading of the definition: it wrote, or tried to write, the file
TookBuildPath(c) ==
    /\ call[c].pc \in {"run", "cleanup", "prune_loop", "done"}
    /\ \/ call[c].builds > 0
       \/ call[c].failedAt = "definition" /\ call[c].exc = "OSError"

\* C21: after a call of ensure_image that took the build path there is no
\* file ./tmp_dockerfile, whether the build succeeded, ended with a non-zero
\* status, or the writing of the file raised.
C21_TmpFileGoneAfterBuildPath ==
    \A c \in Callers : TookBuildPath(c) => tmp_dockerfile = None

C24_EveryLaunchWrapped ==
    \A c \in Callers :
        call[c].is_windows =>
            \A i \in 1..Len(call[c].launched) :
                call[c].launched[i][1] = "wsl.exe"

\* C27: when ensure_docker has returned, on the status probe or on the
\* socket, the daemon accepts commands.
C27_ReturnMeansReachable ==
    \A c \in Callers :
        (call[c].pc = "inspect" /\ call[c].checked # "none") =>
            docker.daemon = "up"

\* the datetime strptime reads from the name of an accepted directory
TimeOf(n) == Strptime(DropFirst(n, Len(RunPrefix))).ts

\* the fields of a datetime, the most significant first
Fields(ts) == <<ts.Y, ts.m, ts.d, ts.H, ts.M, ts.S, ts.f>>

\* the datetime a is before the datetime b
Before(a, b) ==
    \E i \in 1..7 :
        /\ Fields(a)[i] < Fields(b)[i]
        /\ \A j \in 1..(i - 1) : Fields(a)[j] = Fields(b)[j]

\* C23: of any two accepted directories the one with the lesser name has the
\* earlier timestamp, and a prune pass removes no directory while it keeps,
\* among its N greatest names, one with an earlier timestamp.
C23_NameOrderIsTimeOrder ==
    /\ \A x, y \in Accepted(fs) : StrLess(x, y) <=> Before(TimeOf(x), TimeOf(y))
    /\ \A c \in Callers : InPass(c) =>
          \A r \in call[c].removed :
              \A k \in Greatest(Accepted(The(call[c].before)), call[c].max_runs) :
                  ~Before(TimeOf(k), TimeOf(r))

\* the greater of two numbers
Max(x, y) == IF x >= y THEN x ELSE y

\* run is over: it returned, or an exception of the sandbox left it
Ended == wf.pc \in {"returned", "raised"}

\* the steps run can still take, at most: three for every turn of the loop
\* that is left, and those of the turn it is in
Rank(w) ==
    IF w.pc \in {"returned", "raised"} THEN 0
    ELSE 4 * (Max(1, w.max_code_generation) - w.code_generation_count)
           + (CASE w.pc = "new" -> 4
                [] w.pc = "execute" -> 3
                [] w.pc = "executing" -> 2
                [] w.pc = "assess" -> 1)

ExecutionsBounded ==
    /\ wf.code_generation_count <= Max(1, wf.max_code_generation)
    /\ Len(wf.executions) <= Max(1, wf.max_code_generation)
    /\ wf.pc = "returned" => Len(wf.executions) >= 1
    /\ Len(wf.sessions) = Len(wf.history) + (IF wf.pc = "assess" THEN 1 ELSE 0)
    /\ wf.code_generation_count = Len(wf.history)
    /\ Len(wf.executions)
          = wf.code_generation_count
              + (IF wf.pc \in {"executing", "assess", "raised"} THEN 1 ELSE 0)
    /\ \A i, j \in 1..Len(wf.sessions) : i # j => wf.sessions[i] # wf.sessions[j]

\* C25: AgentWorkflow.run calls the sandbox at most max(1,
\* max_code_generation) times, and at least once before it returns; the calls
\* that returned each made a run directory of their own; the count of
\* assessments goes up with every call that returned and stays within the
\* same bound; and every step of run brings its end nearer, so that run ends
\* when every call it awaits returns.
C25_ExecutionsBounded ==
    /\ []ExecutionsBounded
    /\ [][Rank(wf') < Rank(wf)]_wf

\* run has returned at the ceiling after as many executions, none a success
C25_Witness ==
    /\ wf.pc = "returned"
    /\ wf.max_code_generation > 1
    /\ Len(wf.executions) = wf.max_code_generation
    /\ ~wf.assessment.success

\* C26: an execution after the first follows an assessment that is no
\* success, has should_retry and gives code, and is of that code.
C26_ReexecutionOnlyWithNewCode ==
    \A i \in 1..(Len(wf.executions) - 1) :
        LET a == wf.history[i].assessment
        IN  /\ ~a.success
            /\ a.should_retry
            /\ Truthy(a.code)
            /\ wf.executions[i + 1] = a.code

\* a text of ASCII letters, digits and underscores that does not start with a
\* digit
PlainName(k) ==
    /\ Len(k) > 0
    /\ ~IsDigit(k[1])
    /\ \A i \in 1..Len(k) : k[i] \in AsciiLetters \cup {"_"} \/ IsDigit(k[i])

\* C29: every variable file execute writes is <key>.pkl in the inputs
\* directory of the run, for exactly one key of the namespace, made of ASCII
\* letters, digits and underscores and not starting with a digit; its name has
\* no path separator, and the code file and the bootstrap script are as
\* execute wrote them.
C29_VariableFilesStayInInputs ==
    \A c \in Callers : Populated(c) =>
        LET cl  == call[c]
            ins == fs[cl.run_root].inputs
        IN  /\ DOMAIN ins = cl.wrote
            /\ ins[CodeFile] = cl.code
            /\ ins[PreludeFile] = "prelude"
            /\ \A file \in VarFiles(c) :
                  /\ \A i \in 1..Len(file) : file[i] # "/"
                  /\ Cardinality({key \in Keys(cl.variables) :
                                    file = key \o <<".", "p", "k", "l">>}) = 1
                  /\ \A key \in Keys(cl.variables) :
                        file = key \o <<".", "p", "k", "l">> => PlainName(key)

\* the code has x and 1 in it, the namespace the keys ../x, 1x and x, and the
\* one variable file is x.pkl
C29_Witness ==
    \E c \in Callers :
        /\ Populated(c)
        /\ Keys(call[c].variables) = {UpAndOut, DigitFirst, ascii}
        /\ call[c].code.text = <<"1", ";", "x">>
        /\ VarFiles(c) = {PklName(ascii)}

\* C28: when execute returns an ExecutionResult, the run directory of the
\* call is still there after the prune pass of the same call, whatever the
\* run root held before.
C28_OwnRunDirectoryRetained ==
    \A c \in Callers :
        (PassDone(c) /\ ~call[c].direct /\ call[c].result # None) =>
            call[c].run_root \in DOMAIN fs

\* the bootstrap of a caller has run to its end
Booted(c) == call[c].stages = <<"main">> /\ call[c].proc # None

\* the first statement of the code took effect in the process p
Ran(code, p) ==
    IF ~code.compiles THEN p.error = "SyntaxError"
    ELSE Len(code.body) > 0 =>
            LET stmt == code.body[1]
            IN  CASE stmt[1] = "print" -> Len(p.stdout) > 0 /\ p.stdout[1] = stmt[2]
                  [] stmt[1] = "use" ->
                        IF stmt[2] \in DOMAIN p.ns
                        THEN Len(p.stdout) > 0 /\ p.stdout[1] = p.ns[stmt[2]].v
                        ELSE p.error = "NameError" /\ p.stdout = <<>>
                  [] OTHER -> TRUE

\* C30: the bootstrap loads the variable files in sorted file-name order into
\* a namespace keyed by file-name stem; a file that does not deserialize is
\* reported on stderr and left out while the others are loaded and the code
\* is executed; without a readable code file the bootstrap reports it on
\* stderr and ends with status 1 and nothing executed.
C30_BootstrapLoadsAndReports ==
    \A c \in Callers : Booted(c) =>
        LET ins   == The(call[c].inputsBefore)
            p     == The(call[c].proc)
            pkls  == {f \in DOMAIN ins : EndsWith(f, PklSuffix)}
            bad   == {f \in pkls : LoadVar(ins[f]).kind = "LoadFailed"}
            order == SortNames(bad)
        IN  /\ p.notLoaded = [i \in 1..Len(order) |-> Stem(order[i])]
            /\ Len(p.stderr) >= Len(order)
            /\ \A i \in 1..Len(order) : p.stderr[i] = "[prelude] Failed to load"
            /\ DOMAIN p.ns = {Stem(f) : f \in pkls \ bad}
            /\ \A f \in pkls \ bad : p.ns[Stem(f)] = LoadVar(ins[f])
            /\ IF CodeFile \in DOMAIN ins THEN Ran(ins[CodeFile], p)
               ELSE /\ p.rc = 1
                    /\ Len(p.stderr) = Len(order) + 1
                    /\ p.stderr[Len(p.stderr)] = "[prelude] Failed to read code"
                    /\ p.stdout = <<>>
                    /\ p.error = NoError
                    /\ p.written = {} /\ p.denied = {}
                    /\ p.outputs = NoFiles

C30_Witness ==
    /\ Booted("a") /\ Booted("b")
    /\ The(call["a"].proc).notLoaded = <<u>>
    /\ DOMAIN The(call["a"].proc).ns = {v}
    /\ The(call["a"].proc).stdout = <<"start">>
    /\ CodeFile \notin DOMAIN The(call["b"].inputsBefore)
    /\ The(call["b"].proc).notLoaded = <<u>>
    /\ The(call["b"].proc).rc = 1

=============================================================================
